---- MODULE Spec2Model ----
(***************************************************************************)
(* Balance mutation and ledger logic of the Equinox backend.               *)
(*                                                                         *)
(* Two entry points run the same handlers: the standalone server           *)
(* (src/firestore.js lines 69-860, over the relational adapter src/db.js)  *)
(* and the cloud-function server (src/unnamed/part_001 lines 182-697, over *)
(* the document store).  A handler is an async function: every awaited     *)
(* store call is one atomic step of the store, and other requests may run  *)
(* between two awaits.  Each process p below is one request in flight; its *)
(* pc is the await it stands before.                                       *)
(*                                                                         *)
(* Amounts are integers (whole currency units); JavaScript's NaN and the   *)
(* other non-numeric inputs are kept apart from the numbers by Number.     *)
(***************************************************************************)
EXTENDS Integers, Sequences, FiniteSets, TLC

\* ------------------------------------------------------------------ bounds
\* Requests in flight at once (Spec runs them one at a time, on process 1).
NProcs == 2
\* Requests started in one behaviour.
MaxRequests == 3
\* Largest amount a request may carry.
MaxAmount == 2

Procs == 1..NProcs

\* ------------------------------------------------------------ input values
Uids == {"u1", "u2"}
\* A request body without uid: `!uid` is true.
NoUid == ""
Emails == {"a@x", "b@x"}
NoEmail == ""

\* Passwords as character sequences: the handler reads their length.
NoPw == << >>
Pw5 == <<"s", "e", "c", "r", "t">>
Pw6 == <<"s", "e", "c", "r", "e", "t">>
Passwords == {NoPw, Pw5, Pw6}

\* Notes as sequences of words and single characters.
NoNote == << >>
NoteDefault == <<"default">>
NoteGasFee == <<"gas", "_", "fee">>
NoteWithdraw == <<"withdraw">>
NoteWallet == <<"wallet">>
NoteBonus == <<"bonus">>
\* A caller's note that is no attempt marker and differs from one in two
\* characters.
NoteLookAlike == <<"deposit", "-", "attempt", "-", "x">>
\* The tokens of a note that are one character long.
Chars == {"_", "-", "x"}
DepositAttemptPrefix == <<"deposit", "_", "attempt", "_">>
GasFeeAttemptPrefix == <<"gas", "_", "fee", "_", "attempt", "_">>

\* A JSON value of a request body, before Number() is applied to it.
Num(n) == [t |-> "num", v |-> n]
Undefined == [t |-> "undefined", v |-> 0]
Null == [t |-> "null", v |-> 0]
True == [t |-> "bool", v |-> 1]
Text == [t |-> "string", v |-> 0]

\* Number(x) and Number.isFinite: a number is itself, null is 0, true is 1, a
\* missing value or a string that is no numeral is NaN.
Number(x) ==
    CASE x.t = "num" -> [finite |-> TRUE, n |-> x.v]
      [] x.t = "null" -> [finite |-> TRUE, n |-> 0]
      [] x.t = "bool" -> [finite |-> TRUE, n |-> x.v]
      [] OTHER -> [finite |-> FALSE, n |-> 0]

\* The x-admin-key header.
ADMIN_KEY == "1738"
BadKey == "0000"
NoKey == ""

\* crypto.createHash('sha256').update(password).digest('hex')
hashPassword(password) == <<"sha256", password>>

MinPasswordLen == 6

\* ------------------------------------------------------------------- state
VARIABLES
    backend,     \* "sql": standalone server over db.js; "firestore": cloud function
    users,       \* uid -> [email]
    user_auth,   \* uid -> [email, password_hash]
    balances,    \* uid -> [balance_usd, wallet_balance_usd]
    deposits,    \* the ledger, in insertion order: [uid, amount_usd, note, created_at]
    stocks,      \* company -> [company, current_price, percentage_change, direction, updated_at]
    user_percentages,  \* uid or sentinel -> [uid, value, direction, updated_at]
    pc,          \* per request: the await it stands before
    req,         \* per request: the request body and headers
    loc,         \* per request: the handler's local constants
    resp,        \* per request: the response sent
    pre,         \* history: the store as it was when the request arrived
    topups,      \* history: per uid, the displayed-balance bumps applied
    failed,      \* history: some store call has thrown
    attempts,    \* history: the ledger ids written by deposit attempts
    signups,     \* history: [email, password, uid] of every signup answered ok
    nreq,        \* history: requests started
    twin         \* one balance_usd column as each backend holds it, request by request

settings == <<stocks, user_percentages>>
store == <<users, user_auth, balances, deposits, stocks, user_percentages>>
vars == <<backend, users, user_auth, balances, deposits, stocks, user_percentages, pc, req, loc, resp,
          pre, topups, failed, attempts, signups, nreq, twin>>

Backends == {"sql", "firestore"}

\* -------------------------------------------------------- the store adapter
\* db.increment(n) / FieldValue.increment(n), and a plain value.
increment(n) == [inc |-> TRUE, v |-> n]
Plain(n) == [inc |-> FALSE, v |-> n]

\* Mutant: a marker is written as a plain value.
ApplyPatch_Overwrites(row, patch) ==
    [f \in DOMAIN row |-> IF f \in DOMAIN patch THEN patch[f].v ELSE row[f]]
\* One row under a patch: `col = col + delta` for a marker, `col = value` else.
ApplyPatch(row, patch) ==
    [f \in DOMAIN row |->
        IF f \in DOMAIN patch
        THEN IF patch[f].inc THEN row[f] + patch[f].v ELSE patch[f].v
        ELSE row[f]]

\* doc(id).update(patch): UPDATE ... WHERE pk = id changes nothing when no
\* row has the key.
DocUpdate(coll, id, patch) ==
    IF id \in DOMAIN coll
    THEN [coll EXCEPT ![id] = ApplyPatch(@, patch)]
    ELSE coll

\* The document store rejects an update of a document that does not exist.
UpdateThrows(coll, id) == backend = "firestore" /\ id \notin DOMAIN coll

\* doc(id).set(data): insert, or on conflict overwrite the columns given
\* (relational); replace the document (document store).
DocSet(coll, id, data) ==
    IF backend = "sql" /\ id \in DOMAIN coll
    THEN [coll EXCEPT ![id] =
            [f \in DOMAIN @ |-> IF f \in DOMAIN data THEN data[f] ELSE @[f]]]
    ELSE (id :> data) @@ coll

\* balances.uid and deposits.uid REFERENCES users(uid) in the relational schema.
ForeignKeyThrows(uid) == backend = "sql" /\ uid \notin DOMAIN users

\* A store that kept one running record per ledger: not what the code does.
AddDeposit_Overwrite(ledger, now, uid, amount, note) ==
    LET d == [uid |-> uid, amount_usd |-> amount, note |-> note, created_at |-> now]
    IN  IF ledger = << >> THEN <<d>> ELSE [ledger EXCEPT ![Len(ledger)] = d]

\* collection.add / addDeposit: INSERT INTO deposits ... RETURNING id.
AddDeposit(ledger, now, uid, amount, note) ==
    Append(ledger, [uid |-> uid, amount_usd |-> amount, note |-> note,
                    created_at |-> now])

\* doc(id).get(): {exists, data()}.
NoBalance == [exists |-> FALSE, balance_usd |-> 0, wallet_balance_usd |-> 0]
GetBalance(uid) ==
    IF uid \in DOMAIN balances
    THEN [exists |-> TRUE,
          balance_usd |-> balances[uid].balance_usd,
          wallet_balance_usd |-> balances[uid].wallet_balance_usd]
    ELSE NoBalance

NoUser == [exists |-> FALSE, email |-> NoEmail]
GetUser(uid) ==
    IF uid \in DOMAIN users
    THEN [exists |-> TRUE, email |-> users[uid].email]
    ELSE NoUser

\* Mutant: the lookup never finds a row.
AuthWithEmail_None(email) == {}
\* findAuthByEmail / where('email','==',email).limit(1): is there a row.
AuthWithEmail(email) == {u \in DOMAIN user_auth : user_auth[u].email = email}

\* ------------------------------------------------------- requests, replies
NoReq == [op |-> "none", key |-> NoKey, uid |-> NoUid, amount |-> Undefined,
          gas |-> Undefined, displayed |-> Undefined, email |-> NoEmail,
          password |-> NoPw, note |-> NoNote, asset |-> NoNote,
          address |-> NoNote, depositType |-> NoNote, company |-> "",
          currentPrice |-> Undefined, percentage |-> Undefined,
          direction |-> "", value |-> Undefined]

NoProfile == [uid |-> NoUid, email |-> NoEmail, balance_usd |-> 0,
              wallet_balance_usd |-> 0]
\* {value: 0, direction: 'neutral'}
NoPercentage == [value |-> 0, direction |-> "neutral"]
NoResp == [status |-> "none", profile |-> NoProfile, deposits |-> << >>,
           stocks |-> << >>, users |-> << >>, newPrice |-> 0, scope |-> "",
           percentage |-> NoPercentage]

NoLoc == [uid |-> NoUid, user |-> NoUser, bal |-> NoBalance,
          effectiveHome |-> 0, docs |-> << >>, users |-> << >>]

NoPre == [balances |-> << >>, ndeposits |-> 0, users |-> {}, now |-> 0,
          store |-> <<<< >>, << >>, << >>, << >>, << >>, << >>>>]

\* Mutant: the profile reports zero balances whatever is stored.
Profile_ZeroBalances(uid, user, bal) ==
    [uid |-> IF user.exists THEN uid ELSE NoUid,
     email |-> user.email,
     balance_usd |-> 0,
     wallet_balance_usd |-> 0]
\* {...user, balance_usd: balance.balance_usd || 0, wallet_balance_usd: ...}
Profile(uid, user, bal) ==
    [uid |-> IF user.exists THEN uid ELSE NoUid,
     email |-> user.email,
     balance_usd |-> bal.balance_usd,
     wallet_balance_usd |-> bal.wallet_balance_usd]

Running(p) == pc[p] \notin {"idle", "done"}

\* A request arrives at process p.  Its `now` is the number of the request:
\* the clock moves on from one request to the next, and the records one
\* request writes carry one created_at.
Arrive(p, r) ==
    /\ ~Running(p)
    /\ nreq < MaxRequests
    /\ nreq' = nreq + 1
    /\ req' = [req EXCEPT ![p] = r]
    /\ loc' = [loc EXCEPT ![p] = NoLoc]
    /\ pre' = [pre EXCEPT ![p] = [balances |-> balances,
                                   ndeposits |-> Len(deposits),
                                   users |-> DOMAIN users,
                                   now |-> nreq + 1,
                                   store |-> store]]

\* res.status(..).json(..): the handler returns.
Reply(p, status, profile) ==
    /\ pc' = [pc EXCEPT ![p] = "done"]
    /\ resp' = [resp EXCEPT ![p] = [NoResp EXCEPT !.status = status,
                                                  !.profile = profile]]

\* res.json({ok: true, deposits}).
ReplyDeposits(p, rows) ==
    /\ pc' = [pc EXCEPT ![p] = "done"]
    /\ resp' = [resp EXCEPT ![p] = [NoResp EXCEPT !.status = "ok",
                                                  !.deposits = rows]]

\* The handler goes on to its next await.
Goto(p, label) ==
    /\ pc' = [pc EXCEPT ![p] = label]
    /\ resp' = [resp EXCEPT ![p] = NoResp]

\* What no step of a handler changes.
ctl == <<backend, req, pre, nreq, twin>>
hist == <<topups, failed, attempts, signups>>

\* Mutant: a handler without catch block: the rejection goes unhandled and no
\* answer is sent.
StoreThrows_Unhandled(p) ==
    /\ pc' = [pc EXCEPT ![p] = "rejected"]
    /\ failed' = TRUE
    /\ UNCHANGED <<ctl, store, loc, resp, topups, attempts, signups>>

\* A catch block that undid the request's writes: not what the code does.
StoreThrows_RollsBack(p) ==
    /\ Reply(p, "StoreFailure", NoProfile)
    /\ failed' = TRUE
    /\ users' = pre[p].store[1]
    /\ user_auth' = pre[p].store[2]
    /\ balances' = pre[p].store[3]
    /\ deposits' = pre[p].store[4]
    /\ stocks' = pre[p].store[5]
    /\ user_percentages' = pre[p].store[6]
    /\ UNCHANGED <<ctl, loc, topups, attempts, signups>>

\* The awaited store call rejects: the catch block answers 500 internal_error.
StoreThrows(p) ==
    /\ Reply(p, "StoreFailure", NoProfile)
    /\ failed' = TRUE
    /\ UNCHANGED <<ctl, store, loc, topups, attempts, signups>>

\* ------------------------------------------------- numbers in the two stores
\* The relational store keeps balance_usd as NUMERIC: an exact decimal, here a
\* whole number of tenths.  The document store keeps it as an IEEE 754 double,
\* and so does JavaScript: here the bits of the binary expansion, from 2^3
\* down to 2^-56, of which a double holds the 53 from its leading one on.
IntBits == 4
FracBits == 56
Mantissa == 53
Width == IntBits + FracBits

\* The function f over 1..n as the tuple of its values.
Tuple(f, n) == SubSeq(f, 1, n)

ZeroBits == Tuple([i \in 1..Width |-> 0], Width)

\* 2^j modulo 10.
Pow2Mod10(j) == IF j = 0 THEN 1 ELSE <<2, 4, 8, 6>>[((j - 1) % 4) + 1]

\* The binary expansion of r/10 < 1, k places on, and what is left over:
\* long division, whose remainder after j places is r * 2^j modulo 10.
Expand(r, k) ==
    [bits |-> Tuple([j \in 1..k |-> (2 * ((r * Pow2Mod10(j - 1)) % 10)) \div 10], k),
     rest |-> (r * Pow2Mod10(k)) % 10]

\* A whole number below 2^k, in k bits.
IntToBits(n, k) == Tuple([i \in 1..k |-> (n \div (2 ^ (k - i))) % 2], k)

\* The carry into place i of x + y: some lower place makes one and every
\* place between passes it on.
Carry(x, y, i) ==
    IF \E j \in (i + 1)..Width :
           /\ x[j] + y[j] = 2
           /\ \A k \in (i + 1)..(j - 1) : x[k] + y[k] >= 1
    THEN 1 ELSE 0

AddBits(x, y) ==
    Tuple([i \in 1..Width |-> (x[i] + y[i] + Carry(x, y, i)) % 2], Width)

\* The borrow from place i of x - y, for x >= y.
Borrow(x, y, i) ==
    IF \E j \in (i + 1)..Width :
           /\ x[j] < y[j]
           /\ \A k \in (i + 1)..(j - 1) : x[k] <= y[k]
    THEN 1 ELSE 0

SubBits(x, y) ==
    Tuple([i \in 1..Width |-> (x[i] - y[i] - Borrow(x, y, i) + 2) % 2], Width)

\* The place of the leading one, 0 when there is none.
Lead(x) ==
    IF \E i \in 1..Len(x) : x[i] = 1
    THEN CHOOSE i \in 1..Len(x) : x[i] = 1 /\ \A j \in 1..(i - 1) : x[j] = 0
    ELSE 0

\* Round to nearest, ties to even: the expansion x, with `sticky` telling that
\* more ones follow it, becomes the nearest double.
Round(x, sticky) ==
    LET last == Lead(x) + Mantissa - 1
        kept == Tuple([i \in 1..Width |-> IF i <= last THEN x[i] ELSE 0], Width)
        guard == IF last + 1 <= Len(x) THEN x[last + 1] ELSE 0
        more == sticky \/ \E i \in (last + 2)..Len(x) : x[i] = 1
        ulp == Tuple([i \in 1..Width |-> IF i = last THEN 1 ELSE 0], Width)
    IN  IF Lead(x) = 0 \/ last >= Len(x) THEN Tuple(x, Width)
        ELSE IF guard = 1 /\ (more \/ x[last] = 1)
             THEN AddBits(kept, ulp)
             ELSE kept

\* Number(x) of the decimal n/10, as JSON.parse and Number read it.
ToDouble(n) ==
    LET frac == Expand(n % 10, FracBits + 2)
    IN  Round(IntToBits(n \div 10, IntBits) \o frac.bits, frac.rest # 0)

\* x < y on doubles.
Less(x, y) ==
    \E i \in 1..Width : /\ x[i] < y[i]
                        /\ \A j \in 1..(i - 1) : x[j] = y[j]

\* FieldValue.increment(n): the document store adds in double arithmetic.
DoubleAdd(x, y) == Round(AddBits(x, y), FALSE)
DoubleSub(x, y) == Round(SubBits(x, y), FALSE)

TwinInit == [sql |-> 0, firestore |-> ZeroBits,
             status |-> [sql |-> "none", firestore |-> "none"], n |-> 0]

Init ==
    /\ backend \in Backends
    /\ users = << >>
    /\ user_auth = << >>
    /\ balances = << >>
    /\ deposits = << >>
    /\ stocks = << >>
    /\ user_percentages = << >>
    /\ pc = [p \in Procs |-> "idle"]
    /\ req = [p \in Procs |-> NoReq]
    /\ loc = [p \in Procs |-> NoLoc]
    /\ resp = [p \in Procs |-> NoResp]
    /\ pre = [p \in Procs |-> NoPre]
    /\ topups = [u \in Uids |-> 0]
    /\ failed = FALSE
    /\ attempts = {}
    /\ signups = {}
    /\ nreq = 0
    /\ twin = TwinInit

\* ---------------------------------------------------------------- signup
\* uid = 'uid_' + random + time: a uid no user and no signup in flight has.
\* Uids are opaque, so the first unused name stands for the fresh value.
UidOrder == <<"u1", "u2">>
UnusedUids ==
    Uids \ (DOMAIN users \cup {loc[q].uid : q \in {x \in Procs : req[x].op = "signup"}})
FreshUids ==
    {u \in UnusedUids :
        \A i, j \in 1..Len(UidOrder) :
            (UidOrder[i] = u /\ UidOrder[j] \in UnusedUids) => i <= j}

\* Mutant: the length of the password is not looked at.
SignupInvalid_AnyLength(email, password) ==
    email = NoEmail \/ password = NoPw
\* !email || !password || password.length < 6
SignupInvalid(email, password) ==
    email = NoEmail \/ password = NoPw \/ Len(password) < MinPasswordLen

\* The uid is generated at random; the model serves a signup while one of its
\* uids is unused.
SignupBegin(p, email, password) ==
    /\ UnusedUids # {}
    /\ Arrive(p, [NoReq EXCEPT !.op = "signup", !.email = email,
                                !.password = password])
    /\ IF SignupInvalid(email, password)
       THEN Reply(p, "InvalidInput", NoProfile)
       ELSE Goto(p, "signup_find")
    /\ UNCHANGED <<backend, twin, store, hist>>

SignupFindAuth(p) ==
    /\ pc[p] = "signup_find"
    /\ IF AuthWithEmail(req[p].email) # {}
       THEN /\ Reply(p, "EmailExists", NoProfile)
            /\ UNCHANGED loc
       ELSE /\ \E u \in FreshUids : loc' = [loc EXCEPT ![p].uid = u]
            /\ Goto(p, "signup_user")
    /\ UNCHANGED <<ctl, store, hist>>

SignupCreateUser(p) ==
    /\ pc[p] = "signup_user"
    /\ users' = DocSet(users, loc[p].uid,
                       [email |-> req[p].email, created_at |-> pre[p].now])
    /\ Goto(p, "signup_auth")
    /\ UNCHANGED <<ctl, settings, user_auth, balances, deposits, loc, hist>>

SignupCreateAuth(p) ==
    /\ pc[p] = "signup_auth"
    /\ IF ForeignKeyThrows(loc[p].uid)
       THEN StoreThrows(p)
       ELSE /\ user_auth' = DocSet(user_auth, loc[p].uid,
                                   [email |-> req[p].email,
                                    password_hash |-> hashPassword(req[p].password)])
            /\ Goto(p, "signup_balance")
            /\ UNCHANGED <<ctl, settings, users, balances, deposits, loc, hist>>

\* Mutant: a signup starts with a home balance of one.
DefaultBalance_Bonus == [balance_usd |-> 0, wallet_balance_usd |-> 1]
\* The balance a signup starts from.
DefaultBalance == [balance_usd |-> 0, wallet_balance_usd |-> 0]

\* Mutant: the signup goes on without creating the Balance.
SignupCreateBalance_Skips(p) ==
    /\ pc[p] = "signup_balance"
    /\ Goto(p, "signup_deposit")
    /\ UNCHANGED <<ctl, store, loc, hist>>
SignupCreateBalance(p) ==
    /\ pc[p] = "signup_balance"
    /\ IF ForeignKeyThrows(loc[p].uid)
       THEN StoreThrows(p)
       ELSE /\ balances' = DocSet(balances, loc[p].uid, DefaultBalance)
            /\ Goto(p, "signup_deposit")
            /\ UNCHANGED <<ctl, settings, users, user_auth, deposits, loc, hist>>

SignupAddDeposit(p) ==
    /\ pc[p] = "signup_deposit"
    /\ IF ForeignKeyThrows(loc[p].uid)
       THEN StoreThrows(p)
       ELSE /\ deposits' = AddDeposit(deposits, pre[p].now, loc[p].uid, 0, NoteDefault)
            /\ Goto(p, "profile_user")
            /\ UNCHANGED <<ctl, settings, users, user_auth, balances, loc, hist>>

\* ----------------------------------------------------------------- login
\* !email || !password
LoginInvalid(email, password) == email = NoEmail \/ password = NoPw

LoginBegin(p, email, password) ==
    /\ Arrive(p, [NoReq EXCEPT !.op = "login", !.email = email,
                                !.password = password])
    /\ IF LoginInvalid(email, password)
       THEN Reply(p, "InvalidInput", NoProfile)
       ELSE Goto(p, "login_find")
    /\ UNCHANGED <<backend, twin, store, hist>>

\* An unknown email: 404 not_found on the standalone server, 401
\* invalid_credentials on the cloud function.
UnknownEmail == IF backend = "sql" THEN "NotFound" ELSE "InvalidCredentials"

\* Mutant: the stored hash is accepted whatever the password.
PasswordMatches_Always(auth, password) == TRUE
\* auth.password_hash !== hashPassword(password)
PasswordMatches(auth, password) == auth.password_hash = hashPassword(password)

\* findAuthByEmail / where('email','==',email).limit(1), then the hash check.
LoginFindAuth(p) ==
    /\ pc[p] = "login_find"
    /\ IF AuthWithEmail(req[p].email) = {}
       THEN /\ Reply(p, UnknownEmail, NoProfile)
            /\ UNCHANGED loc
       ELSE \E u \in AuthWithEmail(req[p].email) :
               IF ~PasswordMatches(user_auth[u], req[p].password)
               THEN /\ Reply(p, "InvalidCredentials", NoProfile)
                    /\ UNCHANGED loc
               ELSE /\ loc' = [loc EXCEPT ![p].uid = u]
                    /\ Goto(p, "profile_user")
    /\ UNCHANGED <<ctl, store, hist>>

\* ------------------------------------------------------------- register
\* POST /api/register (relational server only): upsert a user under a uid
\* the caller chooses, make sure it has a Balance and a "default" record.
RegisterBegin(p, uid, email) ==
    /\ backend = "sql"
    /\ Arrive(p, [NoReq EXCEPT !.op = "register", !.uid = uid, !.email = email])
    /\ IF uid = NoUid
       THEN Reply(p, "InvalidInput", NoProfile)
       ELSE Goto(p, "register_user")
    /\ UNCHANGED <<backend, twin, store, hist>>

RegisterSetUser(p) ==
    /\ pc[p] = "register_user"
    /\ users' = DocSet(users, req[p].uid,
                       [email |-> req[p].email, created_at |-> pre[p].now])
    /\ loc' = [loc EXCEPT ![p].uid = req[p].uid]
    /\ Goto(p, "register_get")
    /\ UNCHANGED <<ctl, settings, user_auth, balances, deposits, hist>>

RegisterGetBalance(p) ==
    /\ pc[p] = "register_get"
    /\ loc' = [loc EXCEPT ![p].bal = GetBalance(loc[p].uid)]
    /\ Goto(p, "register_balance")
    /\ UNCHANGED <<ctl, store, hist>>

\* (balanceData.wallet_balance_usd || 0) === 0: the relational store hands a
\* NUMERIC column back as text, which is never === 0.
StoredIsZero(v) == backend = "firestore" /\ v = 0

\* The DEFAULT_HOME_BALANCE the register handler writes.
RegisterEnsureBalance(p) ==
    /\ pc[p] = "register_balance"
    /\ IF ~loc[p].bal.exists
       THEN IF ForeignKeyThrows(loc[p].uid)
            THEN StoreThrows(p)
            ELSE /\ balances' = DocSet(balances, loc[p].uid, DefaultBalance)
                 /\ Goto(p, "register_query")
                 /\ UNCHANGED <<ctl, settings, users, user_auth, deposits, loc, hist>>
       ELSE /\ balances' = IF StoredIsZero(loc[p].bal.wallet_balance_usd)
                           THEN DocUpdate(balances, loc[p].uid,
                                          "wallet_balance_usd" :> Plain(0))
                           ELSE balances
            /\ Goto(p, "register_query")
            /\ UNCHANGED <<ctl, settings, users, user_auth, deposits, loc, hist>>

\* where('uid','==',uid).where('note','==','default').limit(1).get(), then
\* add the record when the query came back empty.
RegisterEnsureDeposit(p) ==
    /\ pc[p] = "register_query"
    /\ IF \E i \in 1..Len(deposits) :
              deposits[i].uid = loc[p].uid /\ deposits[i].note = NoteDefault
       THEN Goto(p, "profile_user")
       ELSE Goto(p, "register_deposit")
    /\ UNCHANGED <<ctl, store, loc, hist>>

RegisterAddDeposit(p) ==
    /\ pc[p] = "register_deposit"
    /\ IF ForeignKeyThrows(loc[p].uid)
       THEN StoreThrows(p)
       ELSE /\ deposits' = AddDeposit(deposits, pre[p].now, loc[p].uid, 0, NoteDefault)
            /\ Goto(p, "profile_user")
            /\ UNCHANGED <<ctl, settings, users, user_auth, balances, loc, hist>>

\* ----------------------------------------------- the profile of a response
\* After signup, register and withdraw: the user row is read, then the
\* balance row.
ProfileGetUser(p) ==
    /\ pc[p] = "profile_user"
    /\ loc' = [loc EXCEPT ![p].user = GetUser(loc[p].uid)]
    /\ Goto(p, "profile_balance")
    /\ UNCHANGED <<ctl, store, hist>>

\* Signup, login, register and the profile endpoint read the balance through `exists ? data :
\* zeros` (getUserProfile: `balance ? ... : 0`); credit
\* and withdraw read `updatedBalanceDoc.data().balance_usd`, which throws a
\* TypeError on a missing row.
ProfileGetBalance(p) ==
    /\ pc[p] = "profile_balance"
    /\ IF /\ req[p].op \notin {"signup", "login", "register", "profile"}
          /\ ~GetBalance(loc[p].uid).exists
       THEN StoreThrows(p)
       ELSE /\ Reply(p, "ok", Profile(loc[p].uid, loc[p].user, GetBalance(loc[p].uid)))
            /\ signups' = IF req[p].op = "signup"
                          THEN signups \cup {[email |-> req[p].email,
                                               password |-> req[p].password,
                                               uid |-> loc[p].uid]}
                          ELSE signups
            /\ UNCHANGED <<ctl, store, loc, topups, failed, attempts>>

\* GET /api/profile/:uid: 404 without the user, else the assembled profile.
ProfileBegin(p, uid) ==
    /\ Arrive(p, [NoReq EXCEPT !.op = "profile", !.uid = uid])
    /\ Goto(p, "profile_read")
    /\ UNCHANGED <<backend, twin, store, hist>>

ProfileRead(p) ==
    /\ pc[p] = "profile_read"
    /\ IF ~GetUser(req[p].uid).exists
       THEN Reply(p, "NotFound", NoProfile) /\ UNCHANGED loc
       ELSE /\ loc' = [loc EXCEPT ![p].uid = req[p].uid,
                                  ![p].user = GetUser(req[p].uid)]
            /\ Goto(p, "profile_balance")
    /\ UNCHANGED <<ctl, store, hist>>

\* ------------------------------------------------------------- user listing
\* orderBy('created_at', 'desc'): the uids by falling created_at.  Every
\* request has its own `now` and writes at most one user, so no two users
\* share a created_at.
\* Mutant: the uids by rising created_at.
RECURSIVE UsersOrdered_Rising(_)
UsersOrdered_Rising(uids) ==
    IF uids = {} THEN << >>
    ELSE LET first == CHOOSE u \in uids : \A v \in uids :
                          users[u].created_at <= users[v].created_at
         IN  <<[uid |-> first, email |-> users[first].email,
                created_at |-> users[first].created_at]>>
             \o UsersOrdered_Rising(uids \ {first})

RECURSIVE UsersOrdered(_)
UsersOrdered(uids) ==
    IF uids = {} THEN << >>
    ELSE LET first == CHOOSE u \in uids : \A v \in uids :
                          users[u].created_at >= users[v].created_at
         IN  <<[uid |-> first, email |-> users[first].email,
                created_at |-> users[first].created_at]>>
             \o UsersOrdered(uids \ {first})

ReplyUsers(p, rows) ==
    /\ pc' = [pc EXCEPT ![p] = "done"]
    /\ resp' = [resp EXCEPT ![p] = [NoResp EXCEPT !.status = "ok", !.users = rows]]

\* GET /api/users
UsersBegin(p, key) ==
    /\ Arrive(p, [NoReq EXCEPT !.op = "users", !.key = key])
    /\ IF key # ADMIN_KEY
       THEN Reply(p, "Unauthorized", NoProfile)
       ELSE Goto(p, "users_query")
    /\ UNCHANGED <<backend, twin, store, hist>>

UsersQuery(p) ==
    /\ pc[p] = "users_query"
    /\ loc' = [loc EXCEPT ![p].docs = UsersOrdered(DOMAIN users), ![p].users = << >>]
    /\ Goto(p, "users_balance")
    /\ UNCHANGED <<ctl, store, hist>>

\* {...userData, balance_usd: balanceData.balance_usd || 0, ...}
UserRow(userData, bal) ==
    [uid |-> userData.uid, email |-> userData.email,
     created_at |-> userData.created_at,
     balance_usd |-> bal.balance_usd,
     wallet_balance_usd |-> bal.wallet_balance_usd]

\* The loop over the snapshot: one balance read per user, then the reply.
UsersBalance(p) ==
    /\ pc[p] = "users_balance"
    /\ IF loc[p].docs = << >>
       THEN ReplyUsers(p, loc[p].users) /\ UNCHANGED loc
       ELSE /\ loc' = [loc EXCEPT
                         ![p].docs = Tail(@),
                         ![p].users = Append(@, UserRow(Head(loc[p].docs),
                                                        GetBalance(Head(loc[p].docs).uid)))]
            /\ Goto(p, "users_balance")
    /\ UNCHANGED <<ctl, store, hist>>

\* ---------------------------------------------------------- admin credits
\* Mutant: a credit of zero passes the body check.
CreditInvalid_AllowsZero(uid, amount) ==
    uid = NoUid \/ ~Number(amount).finite \/ Number(amount).n < 0
\* !uid || !Number.isFinite(amount) || amount <= 0
CreditInvalid(uid, amount) ==
    uid = NoUid \/ ~Number(amount).finite \/ Number(amount).n <= 0

\* Mutant: the home credit ignores the caller's note.
CreditNote_IgnoresCaller(op, note) ==
    IF op = "credit_gas" THEN NoteGasFee ELSE NoteWallet
\* /deposits/manual tags its record gas_fee; /deposits/manual/home uses
\* `note || 'wallet'`.
CreditNote(op, note) ==
    IF op = "credit_gas" THEN NoteGasFee
    ELSE IF note = NoNote THEN NoteWallet ELSE note

\* The column a credit raises.
CreditField(op) ==
    IF op = "credit_gas" THEN "balance_usd" ELSE "wallet_balance_usd"

\* Mutant: the credit writes back the balance it read plus the amount.
CreditPatch_ReadModifyWrite(op, amount, balanceData) ==
    CreditField(op) :> Plain(balanceData[CreditField(op)] + amount)
\* balanceRef.update({<field>: increment(amount), updated_at}), with the
\* balanceDoc read just before in scope.
CreditPatch(op, amount, balanceData) == CreditField(op) :> increment(amount)

\* Mutant: the new row carries the amount in both columns.
CreditNewRow_BothColumns(op, amount) ==
    [balance_usd |-> amount, wallet_balance_usd |-> amount]
\* balanceRef.set({uid, balance_usd, wallet_balance_usd, updated_at})
CreditNewRow(op, amount) ==
    [DefaultBalance EXCEPT ![CreditField(op)] = amount]

\* Mutant: the body is checked before the admin key.
CreditBegin_BodyFirst(p, op, key, uid, amount, note) ==
    /\ op = "credit_home" => backend = "sql"
    /\ Arrive(p, [NoReq EXCEPT !.op = op, !.key = key, !.uid = uid,
                                !.amount = amount, !.note = note])
    /\ IF CreditInvalid(uid, amount)
       THEN Reply(p, "InvalidInput", NoProfile)
       ELSE IF key # ADMIN_KEY
       THEN Reply(p, "Unauthorized", NoProfile)
       ELSE Goto(p, "credit_user")
    /\ UNCHANGED <<backend, twin, store, hist>>

\* The handler up to its first await: the admin key, then the body.
CreditBegin(p, op, key, uid, amount, note) ==
    /\ op = "credit_home" => backend = "sql"
    /\ Arrive(p, [NoReq EXCEPT !.op = op, !.key = key, !.uid = uid,
                                !.amount = amount, !.note = note])
    /\ IF key # ADMIN_KEY
       THEN Reply(p, "Unauthorized", NoProfile)
       ELSE IF CreditInvalid(uid, amount)
       THEN Reply(p, "InvalidInput", NoProfile)
       ELSE Goto(p, "credit_user")
    /\ UNCHANGED <<backend, twin, store, hist>>

IsCredit(p) == req[p].op \in {"credit_gas", "credit_home"}

CreditGetUser(p) ==
    /\ pc[p] = "credit_user"
    /\ IF ~GetUser(req[p].uid).exists
       THEN /\ Reply(p, "UserNotFound", NoProfile)
            /\ UNCHANGED loc
       ELSE /\ loc' = [loc EXCEPT ![p].uid = req[p].uid,
                                  ![p].user = GetUser(req[p].uid)]
            /\ Goto(p, "credit_deposit")
    /\ UNCHANGED <<ctl, store, hist>>

CreditAddDeposit(p) ==
    /\ pc[p] = "credit_deposit"
    /\ IF ForeignKeyThrows(loc[p].uid)
       THEN StoreThrows(p)
       ELSE /\ deposits' = AddDeposit(deposits, pre[p].now, loc[p].uid, Number(req[p].amount).n,
                                      CreditNote(req[p].op, req[p].note))
            /\ Goto(p, "credit_balance")
            /\ UNCHANGED <<ctl, settings, users, user_auth, balances, loc, hist>>

CreditGetBalance(p) ==
    /\ pc[p] = "credit_balance"
    /\ loc' = [loc EXCEPT ![p].bal = GetBalance(loc[p].uid)]
    /\ Goto(p, "credit_write")
    /\ UNCHANGED <<ctl, store, hist>>

\* if (balanceDoc.exists) update(increment) else set(new row)
CreditWrite(p) ==
    /\ pc[p] = "credit_write"
    /\ IF loc[p].bal.exists
       THEN IF UpdateThrows(balances, loc[p].uid)
            THEN StoreThrows(p)
            ELSE /\ balances' = DocUpdate(balances, loc[p].uid,
                                    CreditPatch(req[p].op, Number(req[p].amount).n,
                                                loc[p].bal))
                 /\ Goto(p, "profile_balance")
                 /\ UNCHANGED <<ctl, settings, users, user_auth, deposits, loc, hist>>
       ELSE IF ForeignKeyThrows(loc[p].uid)
            THEN StoreThrows(p)
            ELSE /\ balances' = DocSet(balances, loc[p].uid,
                                    CreditNewRow(req[p].op, Number(req[p].amount).n))
                 /\ Goto(p, "profile_balance")
                 /\ UNCHANGED <<ctl, settings, users, user_auth, deposits, loc, hist>>

\* ----------------------------------------------------------------- withdraw
\* !uid || !isFinite(amount) || amount <= 0 || !isFinite(gas) || gas < 0
WithdrawInvalid(uid, amount, gas) ==
    \/ uid = NoUid
    \/ ~Number(amount).finite \/ Number(amount).n <= 0
    \/ ~Number(gas).finite \/ Number(gas).n < 0

\* Mutant: the displayed balance is ignored.
EffectiveHome_Stored(displayed, home_bal) == home_bal
\* isFinite(Number(displayedUsd)) && Number(displayedUsd) > home_bal
\*   ? Number(displayedUsd) : home_bal
EffectiveHome(displayed, home_bal) ==
    IF Number(displayed).finite /\ Number(displayed).n > home_bal
    THEN Number(displayed).n
    ELSE home_bal

\* Mutant: the home check lets through an amount one above the balance.
InsufficientHome_OffByOne(effectiveHome, amount) == effectiveHome + 1 < amount
InsufficientHome(effectiveHome, amount) == effectiveHome < amount
\* Mutant: the gas check is dropped.
InsufficientGas_Dropped(gas_bal, gas) == FALSE
InsufficientGas(gas_bal, gas) == gas_bal < gas

\* Mutant: the deduction leaves the gas balance as it was read.
DeductPatch_NoGas(amount, gas, balanceData) ==
    ("wallet_balance_usd" :> increment(0 - amount)) @@
    ("balance_usd" :> Plain(balanceData.balance_usd))
\* Mutant: the deduction takes the gas fee from the home balance too.
DeductPatch_GasFromHome(amount, gas, balanceData) ==
    ("wallet_balance_usd" :> increment(0 - amount - gas)) @@
    ("balance_usd" :> IF gas > 0 THEN increment(0 - gas)
                                 ELSE Plain(balanceData.balance_usd))
\* {wallet_balance_usd: increment(-amount),
\*  balance_usd: gas > 0 ? increment(-gas) : balanceData.balance_usd}
DeductPatch(amount, gas, balanceData) ==
    ("wallet_balance_usd" :> increment(0 - amount)) @@
    ("balance_usd" :> IF gas > 0 THEN increment(0 - gas)
                                 ELSE Plain(balanceData.balance_usd))

WithdrawBegin(p, uid, amount, gas, displayed) ==
    /\ Arrive(p, [NoReq EXCEPT !.op = "withdraw", !.uid = uid, !.amount = amount,
                                !.gas = gas, !.displayed = displayed])
    /\ IF WithdrawInvalid(uid, amount, gas)
       THEN Reply(p, "InvalidInput", NoProfile)
       ELSE Goto(p, "withdraw_get")
    /\ UNCHANGED <<backend, twin, store, hist>>

\* Mutant: the gas check comes before the home check.
WithdrawGet_GasFirst(p) ==
    LET bal == GetBalance(req[p].uid)
        eff == EffectiveHome(req[p].displayed, bal.wallet_balance_usd)
    IN  /\ pc[p] = "withdraw_get"
        /\ IF ~bal.exists
           THEN Reply(p, "UserNotFound", NoProfile) /\ UNCHANGED loc
           ELSE IF InsufficientGas(bal.balance_usd, Number(req[p].gas).n)
           THEN Reply(p, "InsufficientGasBalance", NoProfile) /\ UNCHANGED loc
           ELSE IF InsufficientHome(eff, Number(req[p].amount).n)
           THEN Reply(p, "InsufficientHomeBalance", NoProfile) /\ UNCHANGED loc
           ELSE /\ loc' = [loc EXCEPT ![p].uid = req[p].uid, ![p].bal = bal,
                                      ![p].effectiveHome = eff]
                /\ Goto(p, IF eff > bal.wallet_balance_usd
                           THEN "withdraw_bump" ELSE "withdraw_deduct")
        /\ UNCHANGED <<ctl, store, hist>>

\* The balance is read once; both checks and every later write use this read.
WithdrawGet(p) ==
    LET bal == GetBalance(req[p].uid)
        eff == EffectiveHome(req[p].displayed, bal.wallet_balance_usd)
    IN  /\ pc[p] = "withdraw_get"
        /\ IF ~bal.exists
           THEN Reply(p, "UserNotFound", NoProfile) /\ UNCHANGED loc
           ELSE IF InsufficientHome(eff, Number(req[p].amount).n)
           THEN Reply(p, "InsufficientHomeBalance", NoProfile) /\ UNCHANGED loc
           ELSE IF InsufficientGas(bal.balance_usd, Number(req[p].gas).n)
           THEN Reply(p, "InsufficientGasBalance", NoProfile) /\ UNCHANGED loc
           ELSE /\ loc' = [loc EXCEPT ![p].uid = req[p].uid, ![p].bal = bal,
                                      ![p].effectiveHome = eff]
                /\ Goto(p, IF eff > bal.wallet_balance_usd
                           THEN "withdraw_bump" ELSE "withdraw_deduct")
        /\ UNCHANGED <<ctl, store, hist>>

\* if (effectiveHome > home_bal) update({wallet_balance_usd: increment(bump)})
WithdrawBump(p) ==
    LET bump == loc[p].effectiveHome - loc[p].bal.wallet_balance_usd
    IN  /\ pc[p] = "withdraw_bump"
        /\ IF UpdateThrows(balances, loc[p].uid)
           THEN StoreThrows(p)
           ELSE /\ balances' = DocUpdate(balances, loc[p].uid,
                                         "wallet_balance_usd" :> increment(bump))
                /\ topups' = [topups EXCEPT ![loc[p].uid] =
                                 IF loc[p].uid \in DOMAIN balances THEN @ + bump ELSE @]
                /\ Goto(p, "withdraw_deduct")
                /\ UNCHANGED <<ctl, settings, users, user_auth, deposits, loc, failed, attempts,
                               signups>>

\* Mutant: the deduction and the "withdraw" record in one step.
WithdrawDeduct_WithRecord(p) ==
    /\ pc[p] = "withdraw_deduct"
    /\ balances' = DocUpdate(balances, loc[p].uid,
                       DeductPatch(Number(req[p].amount).n,
                                   Number(req[p].gas).n, loc[p].bal))
    /\ deposits' = AddDeposit(deposits, pre[p].now, loc[p].uid,
                              0 - Number(req[p].amount).n, NoteWithdraw)
    /\ Goto(p, IF Number(req[p].gas).n > 0
               THEN "withdraw_gas_record" ELSE "profile_user")
    /\ UNCHANGED <<ctl, settings, users, user_auth, loc, hist>>

WithdrawDeduct(p) ==
    /\ pc[p] = "withdraw_deduct"
    /\ IF UpdateThrows(balances, loc[p].uid)
       THEN StoreThrows(p)
       ELSE /\ balances' = DocUpdate(balances, loc[p].uid,
                               DeductPatch(Number(req[p].amount).n,
                                           Number(req[p].gas).n, loc[p].bal))
            /\ Goto(p, "withdraw_record")
            /\ UNCHANGED <<ctl, settings, users, user_auth, deposits, loc, hist>>

WithdrawRecord(p) ==
    /\ pc[p] = "withdraw_record"
    /\ IF ForeignKeyThrows(loc[p].uid)
       THEN StoreThrows(p)
       ELSE /\ deposits' = AddDeposit(deposits, pre[p].now, loc[p].uid,
                                      0 - Number(req[p].amount).n, NoteWithdraw)
            /\ Goto(p, IF Number(req[p].gas).n > 0
                       THEN "withdraw_gas_record" ELSE "profile_user")
            /\ UNCHANGED <<ctl, settings, users, user_auth, balances, loc, hist>>

WithdrawGasRecord(p) ==
    /\ pc[p] = "withdraw_gas_record"
    /\ IF ForeignKeyThrows(loc[p].uid)
       THEN StoreThrows(p)
       ELSE /\ deposits' = AddDeposit(deposits, pre[p].now, loc[p].uid,
                                      0 - Number(req[p].gas).n, NoteGasFee)
            /\ Goto(p, "profile_user")
            /\ UNCHANGED <<ctl, settings, users, user_auth, balances, loc, hist>>

\* ---------------------------------------------------------- deposit attempt
\* The standalone server only.
DepositTypeGas == NoteGasFee

\* Mutant: every attempt is marked as a deposit attempt.
AttemptNote_OnePrefix(depositType, asset, address) ==
    DepositAttemptPrefix \o asset \o <<"_">> \o address

\* `gas_fee_attempt_${asset}_${address}` / `deposit_attempt_${asset}_${address}`
AttemptNote(depositType, asset, address) ==
    (IF depositType = DepositTypeGas THEN GasFeeAttemptPrefix
                                     ELSE DepositAttemptPrefix)
        \o asset \o <<"_">> \o address

AttemptInvalid(uid, amount, asset, address) ==
    \/ uid = NoUid
    \/ ~Number(amount).finite \/ Number(amount).n <= 0
    \/ asset = NoNote \/ address = NoNote

AttemptBegin(p, uid, amount, asset, address, depositType) ==
    /\ backend = "sql"
    /\ Arrive(p, [NoReq EXCEPT !.op = "attempt", !.uid = uid, !.amount = amount,
                                !.asset = asset, !.address = address,
                                !.depositType = depositType])
    /\ IF AttemptInvalid(uid, amount, asset, address)
       THEN Reply(p, "InvalidInput", NoProfile)
       ELSE Goto(p, "attempt_user")
    /\ UNCHANGED <<backend, twin, store, hist>>

AttemptGetUser(p) ==
    /\ pc[p] = "attempt_user"
    /\ IF ~GetUser(req[p].uid).exists
       THEN Reply(p, "UserNotFound", NoProfile)
       ELSE Goto(p, "attempt_insert")
    /\ UNCHANGED <<ctl, store, loc, hist>>

AttemptInsert(p) ==
    /\ pc[p] = "attempt_insert"
    /\ IF ForeignKeyThrows(req[p].uid)
       THEN StoreThrows(p)
       ELSE /\ deposits' = AddDeposit(deposits, pre[p].now, req[p].uid, Number(req[p].amount).n,
                                      AttemptNote(req[p].depositType, req[p].asset,
                                                  req[p].address))
            /\ attempts' = attempts \cup {Len(deposits) + 1}
            /\ Reply(p, "ok", NoProfile)
            /\ UNCHANGED <<ctl, settings, users, user_auth, balances, loc, topups, failed,
                           signups>>

\* ------------------------------------------------------- deposit listing
\* note LIKE '<pattern>%': an underscore of the pattern stands for any one
\* character, every other character for itself, % for any rest.
Like(note, pattern) ==
    /\ Len(note) >= Len(pattern)
    /\ \A i \in 1..Len(pattern) :
          IF pattern[i] = "_" THEN note[i] \in Chars ELSE note[i] = pattern[i]

\* Mutant: the listing keeps every record of the uid.
Listed_NoFilter(d, uid) == d.uid = uid
\* WHERE uid = $1 AND note NOT LIKE 'deposit_attempt_%' AND note NOT LIKE
\* 'gas_fee_attempt_%' (standalone server); where('uid','==',uid) (cloud
\* function).
Listed(d, uid) ==
    /\ d.uid = uid
    /\ backend = "sql" => /\ ~Like(d.note, DepositAttemptPrefix)
                          /\ ~Like(d.note, GasFeeAttemptPrefix)

\* LIMIT 20 / limit(20)
ListLimit == 20

\* ORDER BY created_at DESC: the ledger ids by falling created_at; the order
\* of records with one created_at is the store's choice, here either by
\* rising or by falling id.
RECURSIVE Ordered(_, _)
Ordered(ids, laterFirst) ==
    IF ids = {} THEN << >>
    ELSE LET first == CHOOSE i \in ids : \A j \in ids :
                          \/ deposits[i].created_at > deposits[j].created_at
                          \/ /\ deposits[i].created_at = deposits[j].created_at
                             /\ IF laterFirst THEN i >= j ELSE i <= j
         IN  <<first>> \o Ordered(ids \ {first}, laterFirst)

\* rows.map(row => ({id, uid, amount_usd, note, created_at}))
ListRows(uid, laterFirst) ==
    LET ids == Ordered({i \in 1..Len(deposits) : Listed(deposits[i], uid)}, laterFirst)
        n == IF Len(ids) < ListLimit THEN Len(ids) ELSE ListLimit
    IN  [k \in 1..n |-> [id |-> ids[k],
                         uid |-> deposits[ids[k]].uid,
                         amount_usd |-> deposits[ids[k]].amount_usd,
                         note |-> deposits[ids[k]].note,
                         created_at |-> deposits[ids[k]].created_at]]

\* GET /api/deposits/:uid
ListBegin(p, uid) ==
    /\ Arrive(p, [NoReq EXCEPT !.op = "list", !.uid = uid])
    /\ IF uid = NoUid
       THEN Reply(p, "InvalidInput", NoProfile)
       ELSE Goto(p, "list_query")
    /\ UNCHANGED <<backend, twin, store, hist>>

ListQuery(p) ==
    /\ pc[p] = "list_query"
    /\ \E laterFirst \in BOOLEAN : ReplyDeposits(p, ListRows(req[p].uid, laterFirst))
    /\ UNCHANGED <<ctl, store, loc, hist>>

\* GET /api/deposits/admin/:uid, the standalone server only: every record of
\* the uid, attempts included.
AdminListLimit == 50

AdminListRows(uid, laterFirst) ==
    LET ids == Ordered({i \in 1..Len(deposits) : deposits[i].uid = uid}, laterFirst)
        n == IF Len(ids) < AdminListLimit THEN Len(ids) ELSE AdminListLimit
    IN  [k \in 1..n |-> [id |-> ids[k],
                         uid |-> deposits[ids[k]].uid,
                         amount_usd |-> deposits[ids[k]].amount_usd,
                         note |-> deposits[ids[k]].note,
                         created_at |-> deposits[ids[k]].created_at]]

AdminListBegin(p, key, uid) ==
    /\ backend = "sql"
    /\ Arrive(p, [NoReq EXCEPT !.op = "admin_list", !.key = key, !.uid = uid])
    /\ IF key # ADMIN_KEY
       THEN Reply(p, "Unauthorized", NoProfile)
       ELSE IF uid = NoUid
       THEN Reply(p, "InvalidInput", NoProfile)
       ELSE Goto(p, "admin_list_query")
    /\ UNCHANGED <<backend, twin, store, hist>>

AdminListQuery(p) ==
    /\ pc[p] = "admin_list_query"
    /\ \E laterFirst \in BOOLEAN :
          ReplyDeposits(p, AdminListRows(req[p].uid, laterFirst))
    /\ UNCHANGED <<ctl, store, loc, hist>>

\* ------------------------------------------------------------------- stocks
Companies == {"Acme", "Bolt"}
NoCompany == ""
\* ORDER BY company ASC / orderBy('company').
CompanyOrder == <<"Acme", "Bolt">>
NoDirection == ""

\* The columns of the stocks table as initDb creates it, and the columns the
\* stock queries of the standalone server name.
StocksTableColumns == {"id", "symbol", "name", "data", "created_at"}
QuoteColumns == {"company", "current_price", "percentage_change", "direction",
                 "updated_at"}

\* A relational query that names a column its table does not have is
\* rejected; the document store has no schema.
UndefinedColumn(table, cols) == backend = "sql" /\ ~(cols \subseteq table)

StockInvalid(company, currentPrice, percentage, direction) ==
    \/ company = NoCompany
    \/ ~Number(currentPrice).finite \/ Number(currentPrice).n <= 0
    \/ ~Number(percentage).finite \/ Number(percentage).n < 0
    \/ direction = NoDirection
    \/ direction \notin {"up", "down"}

\* price * (1 + pct / 100) or price * (1 - pct / 100), as an exact number of
\* hundredths: stored and returned prices are in hundredths throughout.  The
\* rounding of binary floating point is not modelled.
newPrice(price, pct, direction) ==
    price * (IF direction = "up" THEN 100 + pct ELSE 100 - pct)

ReplyStock(p, price) ==
    /\ pc' = [pc EXCEPT ![p] = "done"]
    /\ resp' = [resp EXCEPT ![p] = [NoResp EXCEPT !.status = "ok",
                                                  !.newPrice = price]]

ReplyStocks(p, rows) ==
    /\ pc' = [pc EXCEPT ![p] = "done"]
    /\ resp' = [resp EXCEPT ![p] = [NoResp EXCEPT !.status = "ok",
                                                  !.stocks = rows]]

StockUpdateBegin(p, key, company, currentPrice, percentage, direction) ==
    /\ Arrive(p, [NoReq EXCEPT !.op = "stock_update", !.key = key,
                                !.company = company, !.currentPrice = currentPrice,
                                !.percentage = percentage, !.direction = direction])
    /\ IF key # ADMIN_KEY
       THEN Reply(p, "Unauthorized", NoProfile)
       ELSE IF StockInvalid(company, currentPrice, percentage, direction)
       THEN Reply(p, "InvalidInput", NoProfile)
       ELSE Goto(p, "stock_upsert")
    /\ UNCHANGED <<backend, twin, store, hist>>

\* Mutant: the percentage is applied to the stored price when there is one.
StockUpsert_Compounds(p) ==
    LET base == IF req[p].company \in DOMAIN stocks
                THEN stocks[req[p].company].current_price \div 100
                ELSE Number(req[p].currentPrice).n
        price == newPrice(base, Number(req[p].percentage).n, req[p].direction)
        quote == [company |-> req[p].company,
                  current_price |-> price,
                  percentage_change |-> Number(req[p].percentage).n,
                  direction |-> req[p].direction,
                  updated_at |-> pre[p].now]
    IN  /\ pc[p] = "stock_upsert"
        /\ IF UndefinedColumn(StocksTableColumns, QuoteColumns)
           THEN StoreThrows(p)
           ELSE /\ stocks' = DocSet(stocks, req[p].company, quote)
                /\ ReplyStock(p, price)
                /\ UNCHANGED <<ctl, users, user_auth, balances, deposits,
                               user_percentages, loc, hist>>

\* INSERT INTO stocks (...) ON CONFLICT (company) DO UPDATE / doc(company).set.
StockUpsert(p) ==
    LET price == newPrice(Number(req[p].currentPrice).n,
                          Number(req[p].percentage).n, req[p].direction)
        quote == [company |-> req[p].company,
                  current_price |-> price,
                  percentage_change |-> Number(req[p].percentage).n,
                  direction |-> req[p].direction,
                  updated_at |-> pre[p].now]
    IN  /\ pc[p] = "stock_upsert"
        /\ IF UndefinedColumn(StocksTableColumns, QuoteColumns)
           THEN StoreThrows(p)
           ELSE /\ stocks' = DocSet(stocks, req[p].company, quote)
                /\ ReplyStock(p, price)
                /\ UNCHANGED <<ctl, users, user_auth, balances, deposits,
                               user_percentages, loc, hist>>

\* The stored quotes by company ascending.
RECURSIVE StockRows(_)
StockRows(k) ==
    IF k = 0 THEN << >>
    ELSE StockRows(k - 1) \o (IF CompanyOrder[k] \in DOMAIN stocks
                              THEN <<stocks[CompanyOrder[k]]>> ELSE << >>)

StockListBegin(p) ==
    /\ Arrive(p, [NoReq EXCEPT !.op = "stocks"])
    /\ Goto(p, "stocks_query")
    /\ UNCHANGED <<backend, twin, store, hist>>

StockListQuery(p) ==
    /\ pc[p] = "stocks_query"
    /\ IF UndefinedColumn(StocksTableColumns, QuoteColumns)
       THEN StoreThrows(p)
       ELSE /\ ReplyStocks(p, StockRows(Len(CompanyOrder)))
            /\ UNCHANGED <<ctl, store, loc, hist>>

\* --------------------------------------------------------------- percentage
GLOBAL_UID == "__global__"

PercentageInvalid(value, direction) ==
    \/ ~Number(value).finite \/ Number(value).n < 0
    \/ direction \notin {"up", "down", "neutral"}

\* typeof uid === 'string' && uid.trim().length > 0
hasUid(uid) == uid # NoUid

ReplyPercentage(p, scope, percentage) ==
    /\ pc' = [pc EXCEPT ![p] = "done"]
    /\ resp' = [resp EXCEPT ![p] = [NoResp EXCEPT !.status = "ok", !.scope = scope,
                                                  !.percentage = percentage]]

PercentageUpdateBegin(p, key, uid, value, direction) ==
    /\ Arrive(p, [NoReq EXCEPT !.op = "percentage_update", !.key = key, !.uid = uid,
                                !.value = value, !.direction = direction])
    /\ IF key # ADMIN_KEY
       THEN Reply(p, "Unauthorized", NoProfile)
       ELSE IF PercentageInvalid(value, direction)
       THEN Reply(p, "InvalidInput", NoProfile)
       ELSE Goto(p, IF hasUid(uid) THEN "percentage_user" ELSE "percentage_upsert")
    /\ UNCHANGED <<backend, twin, store, hist>>

PercentageGetUser(p) ==
    /\ pc[p] = "percentage_user"
    /\ IF ~GetUser(req[p].uid).exists
       THEN Reply(p, "UserNotFound", NoProfile)
       ELSE Goto(p, "percentage_upsert")
    /\ UNCHANGED <<ctl, store, loc, hist>>

\* Mutant: every setting is written under the global key.
PercentageKey_Global(uid) == GLOBAL_UID
\* The key and scope the handler's branch writes under.
PercentageKey(uid) == IF hasUid(uid) THEN uid ELSE GLOBAL_UID
PercentageScope(uid) == IF hasUid(uid) THEN "user" ELSE "global"

\* INSERT INTO user_percentages ... ON CONFLICT (uid) DO UPDATE, the uid being
\* a reference to users(uid); doc(key).set on the document store, which the
\* handler then reads back.
PercentageUpsert(p) ==
    LET key == PercentageKey(req[p].uid)
        percentageData == [value |-> Number(req[p].value).n,
                           direction |-> req[p].direction]
    IN  /\ pc[p] = "percentage_upsert"
        /\ IF ForeignKeyThrows(key)
           THEN StoreThrows(p)
           ELSE /\ user_percentages' =
                       DocSet(user_percentages, key,
                              [uid |-> key, value |-> percentageData.value,
                               direction |-> percentageData.direction,
                               updated_at |-> pre[p].now])
                /\ IF backend = "sql"
                   THEN ReplyPercentage(p, PercentageScope(req[p].uid), percentageData)
                   ELSE Goto(p, "percentage_read")
                /\ UNCHANGED <<ctl, users, user_auth, balances, deposits, stocks,
                               loc, hist>>

\* The document store only: percentageDoc.data() of the document just set.
PercentageRead(p) ==
    LET key == PercentageKey(req[p].uid)
    IN  /\ pc[p] = "percentage_read"
        /\ ReplyPercentage(p, PercentageScope(req[p].uid),
                           IF key \in DOMAIN user_percentages
                           THEN user_percentages[key] ELSE NoPercentage)
        /\ UNCHANGED <<ctl, store, loc, hist>>

\* GET /api/percentage/current.  The standalone server answers the JSON it
\* stored ({value, direction}) and no scope; the cloud function answers the
\* whole document and a scope.
PercentageData(row) ==
    IF backend = "sql" THEN [value |-> row.value, direction |-> row.direction]
    ELSE row

CurrentScope(scope) == IF backend = "sql" THEN "" ELSE scope

\* Mutant: the uid's own setting is never found.
OwnSetting_Never(uid) == FALSE

\* result.rows.length > 0 / percentageDoc.exists, looked up only with a uid.
OwnSetting(uid) == hasUid(uid) /\ uid \in DOMAIN user_percentages

PercentageCurrentBegin(p, uid) ==
    /\ Arrive(p, [NoReq EXCEPT !.op = "percentage_current", !.uid = uid])
    /\ Goto(p, IF hasUid(uid) THEN "current_user" ELSE "current_global")
    /\ UNCHANGED <<backend, twin, store, hist>>

PercentageCurrentUser(p) ==
    /\ pc[p] = "current_user"
    /\ IF OwnSetting(req[p].uid)
       THEN ReplyPercentage(p, CurrentScope("user"),
                            PercentageData(user_percentages[req[p].uid]))
       ELSE Goto(p, "current_global")
    /\ UNCHANGED <<ctl, store, loc, hist>>

\* The global setting, or the default; the cloud function's default carries
\* the time of the request.
PercentageCurrentGlobal(p) ==
    /\ pc[p] = "current_global"
    /\ ReplyPercentage(p, CurrentScope("global"),
           IF GLOBAL_UID \in DOMAIN user_percentages
           THEN PercentageData(user_percentages[GLOBAL_UID])
           ELSE IF backend = "sql" THEN NoPercentage
           ELSE [value |-> 0, direction |-> "neutral", updated_at |-> pre[p].now])
    /\ UNCHANGED <<ctl, store, loc, hist>>

\* ------------------------------------------------------------ request inputs
\* Well-formed bodies over the small value sets, and every way one field of a
\* body can be malformed.
ValidAmounts == {Num(n) : n \in 1..MaxAmount}
DisplayedInputs == {Undefined, Num(1), Num(MaxAmount + 1)}
NoteInputs == {NoNote, NoteBonus, DepositAttemptPrefix \o <<"x">>, NoteLookAlike}

SignupInputs ==
    [email : Emails, password : {Pw6}]
    \cup {[email |-> NoEmail, password |-> Pw6]}
    \cup [email : {"a@x"}, password : {NoPw, Pw5}]

CreditInputs ==
    [key : {ADMIN_KEY}, uid : Uids, amount : ValidAmounts]
    \cup [key : {BadKey}, uid : {"u1"}, amount : {Num(1)}]
    \cup [key : {ADMIN_KEY}, uid : {NoUid}, amount : {Num(1)}]
    \cup [key : {ADMIN_KEY}, uid : {"u1"}, amount : {Undefined, Num(0), Num(0 - 1)}]

WithdrawInputs ==
    [uid : Uids, amount : ValidAmounts, gas : {Num(0), Num(1)},
     displayed : DisplayedInputs]
    \cup [uid : {NoUid}, amount : {Num(1)}, gas : {Num(0)}, displayed : {Undefined}]
    \cup [uid : {"u1"}, amount : {Undefined, Num(0)}, gas : {Num(0)},
          displayed : {Undefined}]
    \cup [uid : {"u1"}, amount : {Num(1)}, gas : {Undefined, Num(0 - 1)},
          displayed : {Undefined}]

LoginInputs ==
    [email : Emails, password : {Pw5, Pw6}]
    \cup {[email |-> NoEmail, password |-> Pw6], [email |-> "a@x", password |-> NoPw]}

RegisterInputs ==
    [uid : Uids, email : {"b@x"}]
    \cup {[uid |-> NoUid, email |-> "b@x"], [uid |-> "u1", email |-> NoEmail]}

StockInputs ==
    [key : {ADMIN_KEY}, company : Companies, currentPrice : {Num(100)},
     percentage : {Num(0), Num(10)}, direction : {"up", "down"}]
    \cup [key : {BadKey}, company : {"Acme"}, currentPrice : {Num(100)},
          percentage : {Num(10)}, direction : {"up"}]
    \cup [key : {ADMIN_KEY}, company : {NoCompany}, currentPrice : {Num(100)},
          percentage : {Num(10)}, direction : {"up"}]
    \cup [key : {ADMIN_KEY}, company : {"Acme"}, currentPrice : {Undefined, Num(0)},
          percentage : {Num(10)}, direction : {"up"}]
    \cup [key : {ADMIN_KEY}, company : {"Acme"}, currentPrice : {Num(100)},
          percentage : {Undefined, Num(0 - 1)}, direction : {"up"}]
    \cup [key : {ADMIN_KEY}, company : {"Acme"}, currentPrice : {Num(100)},
          percentage : {Num(10)}, direction : {NoDirection, "neutral"}]

PercentageInputs ==
    [key : {ADMIN_KEY}, uid : Uids \cup {NoUid}, value : {Num(0), Num(5)},
     direction : {"up", "neutral"}]
    \cup [key : {BadKey}, uid : {NoUid}, value : {Num(5)}, direction : {"up"}]
    \cup [key : {ADMIN_KEY}, uid : {NoUid}, value : {Undefined, Num(0 - 1)},
          direction : {"up"}]
    \cup [key : {ADMIN_KEY}, uid : {NoUid}, value : {Num(5)}, direction : {"sideways"}]

AttemptInputs ==
    [uid : Uids, amount : {Num(1)}, asset : {<<"btc">>}, address : {<<"x">>},
     depositType : {NoNote, DepositTypeGas}]
    \cup [uid : {NoUid}, amount : {Num(1)}, asset : {<<"btc">>}, address : {<<"x">>},
          depositType : {NoNote}]
    \cup [uid : {"u1"}, amount : {Undefined, Num(0)}, asset : {<<"btc">>},
          address : {<<"x">>}, depositType : {NoNote}]
    \cup [uid : {"u1"}, amount : {Num(1)}, asset : {NoNote}, address : {<<"x">>},
          depositType : {NoNote}]
    \cup [uid : {"u1"}, amount : {Num(1)}, asset : {<<"btc">>}, address : {NoNote},
          depositType : {NoNote}]

\* ------------------------------------------------------------ specifications
\* A request arrives: every handler's synchronous part.
Begin(p) ==
    \/ \E r \in SignupInputs : SignupBegin(p, r.email, r.password)
    \/ \E r \in LoginInputs : LoginBegin(p, r.email, r.password)
    \/ \E r \in RegisterInputs : RegisterBegin(p, r.uid, r.email)
    \/ \E u \in Uids \cup {NoUid} : ListBegin(p, u)
    \/ \E r \in CreditInputs : CreditBegin(p, "credit_gas", r.key, r.uid, r.amount, NoNote)
    \/ \E r \in CreditInputs, n \in NoteInputs :
          CreditBegin(p, "credit_home", r.key, r.uid, r.amount, n)
    \/ \E r \in WithdrawInputs : WithdrawBegin(p, r.uid, r.amount, r.gas, r.displayed)
    \/ \E r \in AttemptInputs :
          AttemptBegin(p, r.uid, r.amount, r.asset, r.address, r.depositType)

\* A handler's next awaited store call.
Step(p) ==
    \/ SignupFindAuth(p)
    \/ SignupCreateUser(p)
    \/ SignupCreateAuth(p)
    \/ SignupCreateBalance(p)
    \/ SignupAddDeposit(p)
    \/ LoginFindAuth(p)
    \/ RegisterSetUser(p)
    \/ RegisterGetBalance(p)
    \/ RegisterEnsureBalance(p)
    \/ RegisterEnsureDeposit(p)
    \/ RegisterAddDeposit(p)
    \/ ProfileGetUser(p)
    \/ ProfileGetBalance(p)
    \/ CreditGetUser(p)
    \/ CreditAddDeposit(p)
    \/ CreditGetBalance(p)
    \/ CreditWrite(p)
    \/ WithdrawGet(p)
    \/ WithdrawBump(p)
    \/ WithdrawDeduct(p)
    \/ WithdrawRecord(p)
    \/ WithdrawGasRecord(p)
    \/ AttemptGetUser(p)
    \/ AttemptInsert(p)
    \/ ListQuery(p)

\* Requests one at a time: each handler runs to completion before the next
\* request arrives, and no store call fails.
Next == Begin(1) \/ Step(1)

Spec == Init /\ [][Next]_vars

\* The admin's stock and percentage endpoints, one request at a time, no store
\* call failing for a reason outside the model; the users they refer to come
\* from signups and, on the standalone server, from a register call that
\* names its own uid, the global sentinel included.
Admin(p) ==
    \/ SignupBegin(p, "a@x", Pw6)
    \/ RegisterBegin(p, GLOBAL_UID, "b@x")
    \/ \E r \in StockInputs :
          StockUpdateBegin(p, r.key, r.company, r.currentPrice, r.percentage,
                           r.direction)
    \/ StockListBegin(p)
    \/ \E r \in PercentageInputs :
          PercentageUpdateBegin(p, r.key, r.uid, r.value, r.direction)
    \/ \E u \in Uids \cup {NoUid} : PercentageCurrentBegin(p, u)
    \/ SignupFindAuth(p)
    \/ SignupCreateUser(p)
    \/ SignupCreateAuth(p)
    \/ SignupCreateBalance(p)
    \/ SignupAddDeposit(p)
    \/ RegisterSetUser(p)
    \/ RegisterGetBalance(p)
    \/ RegisterEnsureBalance(p)
    \/ RegisterEnsureDeposit(p)
    \/ RegisterAddDeposit(p)
    \/ ProfileGetUser(p)
    \/ ProfileGetBalance(p)
    \/ StockUpsert(p)
    \/ StockListQuery(p)
    \/ PercentageGetUser(p)
    \/ PercentageUpsert(p)
    \/ PercentageRead(p)
    \/ PercentageCurrentUser(p)
    \/ PercentageCurrentGlobal(p)

NextAdmin == Admin(1)

SpecAdmin == Init /\ [][NextAdmin]_vars

\* Any awaited store call may reject (the network, the store): the handler's
\* catch block answers internal_error and the writes already made stay.
Fail(p) ==
    /\ Running(p)
    /\ StoreThrows(p)

\* Signups and admin credits one at a time, over a store whose calls may
\* fail: a signup cut short leaves a User without a Balance.  A home credit
\* carries no note or a note of the caller's.
SignupOrCredit(p) ==
    \/ \E r \in SignupInputs : SignupBegin(p, r.email, r.password)
    \/ \E r \in CreditInputs : CreditBegin(p, "credit_gas", r.key, r.uid, r.amount, NoNote)
    \/ \E r \in CreditInputs, n \in {NoNote, NoteBonus} :
          CreditBegin(p, "credit_home", r.key, r.uid, r.amount, n)
    \/ SignupFindAuth(p)
    \/ SignupCreateUser(p)
    \/ SignupCreateAuth(p)
    \/ SignupCreateBalance(p)
    \/ SignupAddDeposit(p)
    \/ ProfileGetUser(p)
    \/ ProfileGetBalance(p)
    \/ CreditGetUser(p)
    \/ CreditAddDeposit(p)
    \/ CreditGetBalance(p)
    \/ CreditWrite(p)

NextFail == SignupOrCredit(1) \/ Fail(1)

SpecFail == Init /\ [][NextFail]_vars

\* Signups and gas credits, and between them the reads: the profile endpoint
\* and the admin's user listing, one request at a time.  A signup's store
\* call may fail, which leaves a User without a Balance.
Reads(p) ==
    \/ \E e \in Emails : SignupBegin(p, e, Pw6)
    \/ \E u \in Uids, a \in ValidAmounts :
          CreditBegin(p, "credit_gas", ADMIN_KEY, u, a, NoNote)
    \/ \E u \in Uids : ProfileBegin(p, u)
    \/ \E k \in {ADMIN_KEY, BadKey} : UsersBegin(p, k)
    \/ SignupFindAuth(p)
    \/ SignupCreateUser(p)
    \/ SignupCreateAuth(p)
    \/ SignupCreateBalance(p)
    \/ SignupAddDeposit(p)
    \/ ProfileGetUser(p)
    \/ ProfileGetBalance(p)
    \/ CreditGetUser(p)
    \/ CreditAddDeposit(p)
    \/ CreditGetBalance(p)
    \/ CreditWrite(p)
    \/ ProfileRead(p)
    \/ UsersQuery(p)
    \/ UsersBalance(p)
    \/ req[p].op = "signup" /\ Fail(p)

NextReads == Reads(1)

SpecReads == Init /\ [][NextReads]_vars

\* The store after signup(a@x), a gas credit of 1 and a withdrawal of 1
\* against a displayed balance of MaxAmount + 1: one user, gas balance 1,
\* home balance MaxAmount.
SeedUid == "u1"
SeedBalance == [balance_usd |-> 1, wallet_balance_usd |-> MaxAmount]
SeedLedger ==
    <<[uid |-> SeedUid, amount_usd |-> 0, note |-> NoteDefault, created_at |-> 0],
      [uid |-> SeedUid, amount_usd |-> 1, note |-> NoteGasFee, created_at |-> 0],
      [uid |-> SeedUid, amount_usd |-> 0 - 1, note |-> NoteWithdraw,
       created_at |-> 0]>>
InitSeeded ==
    /\ backend \in Backends
    /\ users = (SeedUid :> [email |-> "a@x", created_at |-> 0])
    /\ user_auth = (SeedUid :> [email |-> "a@x", password_hash |-> hashPassword(Pw6)])
    /\ balances = (SeedUid :> SeedBalance)
    /\ deposits = SeedLedger
    /\ stocks = << >>
    /\ user_percentages = << >>
    /\ pc = [p \in Procs |-> "idle"]
    /\ req = [p \in Procs |-> NoReq]
    /\ loc = [p \in Procs |-> NoLoc]
    /\ resp = [p \in Procs |-> NoResp]
    /\ pre = [p \in Procs |-> NoPre]
    /\ topups = [u \in Uids |-> IF u = SeedUid THEN MaxAmount + 1 ELSE 0]
    /\ failed = FALSE
    /\ attempts = {}
    /\ signups = {[email |-> "a@x", password |-> Pw6, uid |-> SeedUid]}
    /\ nreq = 0
    /\ twin = TwinInit

\* The admin-gated endpoints on the seeded store, one request at a time, with
\* the configured key, another key or none, over well-formed and malformed
\* bodies.
Keys == {ADMIN_KEY, BadKey, NoKey}

Gated(p) ==
    \/ \E k \in Keys, u \in {SeedUid, NoUid}, a \in {Num(1), Num(0)} :
          \/ CreditBegin(p, "credit_gas", k, u, a, NoNote)
          \/ CreditBegin(p, "credit_home", k, u, a, NoNote)
    \/ \E k \in Keys, c \in {"Acme", NoCompany}, d \in {"up", "neutral"} :
          StockUpdateBegin(p, k, c, Num(100), Num(10), d)
    \/ \E k \in Keys, u \in {SeedUid, NoUid}, v \in {Num(5), Num(0 - 1)} :
          PercentageUpdateBegin(p, k, u, v, "up")
    \/ \E k \in Keys : UsersBegin(p, k)
    \/ \E k \in Keys, u \in {SeedUid, NoUid} : AdminListBegin(p, k, u)
    \/ CreditGetUser(p)
    \/ CreditAddDeposit(p)
    \/ CreditGetBalance(p)
    \/ CreditWrite(p)
    \/ ProfileGetBalance(p)
    \/ StockUpsert(p)
    \/ PercentageGetUser(p)
    \/ PercentageUpsert(p)
    \/ PercentageRead(p)
    \/ UsersQuery(p)
    \/ UsersBalance(p)
    \/ AdminListQuery(p)

NextGated == Gated(1)

SpecGated == InitSeeded /\ [][NextGated]_vars

\* Admin credits to one user, their store calls interleaved; each process
\* serves one request, and the processes, being alike, are taken up in order.
\* A handler touches the store only after its first await, so the requests
\* may all arrive before the first store call without losing an interleaving
\* of store calls.
CreditRace(p) ==
    \/ \E op \in {"credit_gas", "credit_home"}, a \in ValidAmounts :
          /\ pc[p] = "idle"
          /\ \A q \in Procs : q < p => pc[q] # "idle"
          /\ \A q \in Procs : pc[q] \in {"idle", "credit_user"}
          /\ CreditBegin(p, op, ADMIN_KEY, SeedUid, a, NoNote)
    \/ CreditGetUser(p)
    \/ CreditAddDeposit(p)
    \/ CreditGetBalance(p)
    \/ CreditWrite(p)
    \/ ProfileGetBalance(p)

NextCredits == \E p \in Procs : CreditRace(p)

SpecCredits == InitSeeded /\ [][NextCredits]_vars

\* Withdrawals of one user, their store calls interleaved; each process
\* serves one request, and the processes, being alike, are taken up in order
\* and arrive before the first store call.  The requests carry no displayed
\* balance, so none of them takes the bump step.
WithdrawRace(p) ==
    \/ \E a \in ValidAmounts, g \in {Num(0), Num(1)} :
          /\ pc[p] = "idle"
          /\ \A q \in Procs : q < p => pc[q] # "idle"
          /\ \A q \in Procs : pc[q] \in {"idle", "withdraw_get"}
          /\ WithdrawBegin(p, SeedUid, a, g, Undefined)
    \/ WithdrawGet(p)
    \/ WithdrawDeduct(p)
    \/ WithdrawRecord(p)
    \/ WithdrawGasRecord(p)
    \/ ProfileGetUser(p)
    \/ ProfileGetBalance(p)

NextConc == \E p \in Procs : WithdrawRace(p)

SpecConc == InitSeeded /\ [][NextConc]_vars

\* Withdrawals one at a time from the seeded store, over a store whose calls
\* may fail.
WithdrawSteps(p) ==
    \/ \E r \in WithdrawInputs : WithdrawBegin(p, r.uid, r.amount, r.gas, r.displayed)
    \/ WithdrawGet(p)
    \/ WithdrawBump(p)
    \/ WithdrawDeduct(p)
    \/ WithdrawRecord(p)
    \/ WithdrawGasRecord(p)
    \/ ProfileGetUser(p)
    \/ ProfileGetBalance(p)

NextWithdrawFail == WithdrawSteps(1) \/ Fail(1)

SpecWithdrawFail == InitSeeded /\ [][NextWithdrawFail]_vars

\* Withdrawals one at a time from the seeded store, over every kind of
\* displayedUsd: missing, null, true, a string that is no numeral, and
\* numbers below, at and above the stored home balance.
DisplayedValues ==
    {Undefined, Null, True, Text} \cup {Num(n) : n \in 0..(MaxAmount + 1)}

Displayed(p) ==
    \/ \E a \in ValidAmounts, g \in {Num(0), Num(1)}, d \in DisplayedValues :
          WithdrawBegin(p, SeedUid, a, g, d)
    \/ WithdrawGet(p)
    \/ WithdrawBump(p)
    \/ WithdrawDeduct(p)
    \/ WithdrawRecord(p)
    \/ WithdrawGasRecord(p)
    \/ ProfileGetUser(p)
    \/ ProfileGetBalance(p)

NextDisplayed == Displayed(1)

SpecDisplayed == InitSeeded /\ [][NextDisplayed]_vars

\* A ledger at the admin listing's limit: the seeded store after as many more
\* gas credits of 1 as bring the user's records to AdminListLimit.  Deposit
\* attempts and the two deposit listings then run one at a time.
FullLedger ==
    SeedLedger \o
    [i \in 1..(AdminListLimit - Len(SeedLedger)) |->
        [uid |-> SeedUid, amount_usd |-> 1, note |-> NoteGasFee, created_at |-> 0]]

InitFull ==
    /\ backend \in Backends
    /\ users = (SeedUid :> [email |-> "a@x", created_at |-> 0])
    /\ user_auth = (SeedUid :> [email |-> "a@x", password_hash |-> hashPassword(Pw6)])
    /\ balances = (SeedUid :> [SeedBalance EXCEPT
                       !.balance_usd = @ + AdminListLimit - Len(SeedLedger)])
    /\ deposits = FullLedger
    /\ stocks = << >>
    /\ user_percentages = << >>
    /\ pc = [p \in Procs |-> "idle"]
    /\ req = [p \in Procs |-> NoReq]
    /\ loc = [p \in Procs |-> NoLoc]
    /\ resp = [p \in Procs |-> NoResp]
    /\ pre = [p \in Procs |-> NoPre]
    /\ topups = [u \in Uids |-> IF u = SeedUid THEN MaxAmount + 1 ELSE 0]
    /\ failed = FALSE
    /\ attempts = {}
    /\ signups = {[email |-> "a@x", password |-> Pw6, uid |-> SeedUid]}
    /\ nreq = 0
    /\ twin = TwinInit

Attempts(p) ==
    \/ \E r \in AttemptInputs :
          AttemptBegin(p, r.uid, r.amount, r.asset, r.address, r.depositType)
    \/ AttemptGetUser(p)
    \/ AttemptInsert(p)
    \/ \E u \in Uids : AdminListBegin(p, ADMIN_KEY, u)
    \/ AdminListQuery(p)
    \/ \E u \in Uids : ListBegin(p, u)
    \/ ListQuery(p)

NextAttempts == Attempts(1)

SpecAttempts == InitFull /\ [][NextAttempts]_vars

\* Signups and withdrawals one at a time on the seeded store, over a store
\* whose calls may fail.  An awaited store call settles: the handler that
\* waits for it goes on or catches the rejection.
Arrival(p) ==
    \/ \E e \in {"a@x", "b@x"}, w \in {Pw5, Pw6} : SignupBegin(p, e, w)
    \/ \E a \in {Num(0), Num(1)}, g \in {Num(0), Num(1)},
          d \in {Undefined, Num(MaxAmount + 1)} : WithdrawBegin(p, SeedUid, a, g, d)

Settle(p) ==
    \/ SignupFindAuth(p)
    \/ SignupCreateUser(p)
    \/ SignupCreateAuth(p)
    \/ SignupCreateBalance(p)
    \/ SignupAddDeposit(p)
    \/ WithdrawGet(p)
    \/ WithdrawBump(p)
    \/ WithdrawDeduct(p)
    \/ WithdrawRecord(p)
    \/ WithdrawGasRecord(p)
    \/ ProfileGetUser(p)
    \/ ProfileGetBalance(p)
    \/ Fail(p)

NextLive == Arrival(1) \/ Settle(1)

SpecLive == InitSeeded /\ [][NextLive]_vars /\ WF_vars(Settle(1))

\* Two users: the seeded one, and a second after signup(b@x) and a gas credit
\* of 1.  Credits, withdrawals, stock updates and percentage updates then run
\* one at a time, for either uid and for either company.
PairUid == "u2"
PairLedger ==
    SeedLedger \o
    <<[uid |-> PairUid, amount_usd |-> 0, note |-> NoteDefault, created_at |-> 0],
      [uid |-> PairUid, amount_usd |-> 1, note |-> NoteGasFee, created_at |-> 0]>>

InitPair ==
    /\ backend \in Backends
    /\ users = (SeedUid :> [email |-> "a@x", created_at |-> 0]) @@
               (PairUid :> [email |-> "b@x", created_at |-> 0])
    /\ user_auth = (SeedUid :> [email |-> "a@x", password_hash |-> hashPassword(Pw6)]) @@
                   (PairUid :> [email |-> "b@x", password_hash |-> hashPassword(Pw6)])
    /\ balances = (SeedUid :> SeedBalance) @@
                  (PairUid :> [balance_usd |-> 1, wallet_balance_usd |-> 0])
    /\ deposits = PairLedger
    /\ stocks = << >>
    /\ user_percentages = << >>
    /\ pc = [p \in Procs |-> "idle"]
    /\ req = [p \in Procs |-> NoReq]
    /\ loc = [p \in Procs |-> NoLoc]
    /\ resp = [p \in Procs |-> NoResp]
    /\ pre = [p \in Procs |-> NoPre]
    /\ topups = [u \in Uids |-> IF u = SeedUid THEN MaxAmount + 1 ELSE 0]
    /\ failed = FALSE
    /\ attempts = {}
    /\ signups = {[email |-> "a@x", password |-> Pw6, uid |-> SeedUid],
                  [email |-> "b@x", password |-> Pw6, uid |-> PairUid]}
    /\ nreq = 0
    /\ twin = TwinInit

Mutating(p) ==
    \/ \E op \in {"credit_gas", "credit_home"}, u \in Uids :
          CreditBegin(p, op, ADMIN_KEY, u, Num(1), NoNote)
    \/ \E u \in Uids, g \in {Num(0), Num(1)}, d \in {Undefined, Num(MaxAmount + 1)} :
          WithdrawBegin(p, u, Num(1), g, d)
    \/ \E c \in Companies, d \in {"up", "down"} :
          StockUpdateBegin(p, ADMIN_KEY, c, Num(100), Num(10), d)
    \/ \E u \in Uids \cup {NoUid}, d \in {"up", "down"} :
          PercentageUpdateBegin(p, ADMIN_KEY, u, Num(5), d)
    \/ CreditGetUser(p)
    \/ CreditAddDeposit(p)
    \/ CreditGetBalance(p)
    \/ CreditWrite(p)
    \/ WithdrawGet(p)
    \/ WithdrawBump(p)
    \/ WithdrawDeduct(p)
    \/ WithdrawRecord(p)
    \/ WithdrawGasRecord(p)
    \/ ProfileGetUser(p)
    \/ ProfileGetBalance(p)
    \/ StockUpsert(p)
    \/ PercentageGetUser(p)
    \/ PercentageUpsert(p)
    \/ PercentageRead(p)

NextMutating == Mutating(1)

SpecMutating == InitPair /\ [][NextMutating]_vars

\* Stock updates one at a time with the admin key: prices of 50 and 100,
\* percentages from 0 to 150 in either direction, and bodies with a price, a
\* percentage or a direction the handler rejects.
QuoteInputs ==
    [company : Companies, currentPrice : {Num(50), Num(100)},
     percentage : {Num(0), Num(10), Num(100), Num(150)}, direction : {"up", "down"}]
    \cup [company : {"Acme"}, currentPrice : {Num(0), Num(0 - 1)},
          percentage : {Num(10)}, direction : {"down"}]
    \cup [company : {"Acme"}, currentPrice : {Num(100)},
          percentage : {Num(0 - 1)}, direction : {"down"}]
    \cup [company : {"Acme"}, currentPrice : {Num(100)},
          percentage : {Num(10)}, direction : {"neutral", NoDirection}]

Quotes(p) ==
    \/ \E r \in QuoteInputs :
          StockUpdateBegin(p, ADMIN_KEY, r.company, r.currentPrice, r.percentage,
                           r.direction)
    \/ StockUpsert(p)
    \/ StockListBegin(p)
    \/ StockListQuery(p)

NextQuotes == Quotes(1)

SpecQuotes == Init /\ [][NextQuotes]_vars

\* The relational adapter's doc(id).update on the balances table of the
\* seeded store, one call at a time: patches over none, one or both of the
\* balance columns, each field an increment marker or a plain value, addressed
\* to the uid that has a row and to one that has none.
BalanceColumns == {"balance_usd", "wallet_balance_usd"}
PatchValues ==
    {increment(d) : d \in {0 - 1, 1, MaxAmount}} \cup {Plain(v) : v \in {0, MaxAmount}}
Patches == UNION {[cols -> PatchValues] : cols \in SUBSET BalanceColumns}

InitAdapter == InitSeeded /\ backend = "sql"

\* update(patch = {}): the SET list is built from the patch; `if
\* (!sets.length) return` leaves without a statement.
UpdateCall(p, id, patch) ==
    /\ backend = "sql"
    /\ Arrive(p, [patch |-> patch] @@ [NoReq EXCEPT !.op = "update", !.uid = id])
    /\ IF DOMAIN patch = {}
       THEN Reply(p, "ok", NoProfile)
       ELSE Goto(p, "update_query")
    /\ UNCHANGED <<backend, twin, store, hist>>

\* UPDATE balances SET ... WHERE uid = $n: one statement.
UpdateQuery(p) ==
    /\ pc[p] = "update_query"
    /\ balances' = DocUpdate(balances, req[p].uid, req[p].patch)
    /\ Reply(p, "ok", NoProfile)
    /\ UNCHANGED <<ctl, settings, users, user_auth, deposits, loc, hist>>

Adapter(p) ==
    \/ \E id \in Uids, patch \in Patches : UpdateCall(p, id, patch)
    \/ UpdateQuery(p)

NextAdapter == Adapter(1)

SpecAdapter == InitAdapter /\ [][NextAdapter]_vars

\* One user's balance_usd under both backends: the same gas credits and
\* withdrawals, one request at a time, go to the relational store and to the
\* document store.  Amounts are tenths of a dollar; every withdrawal displays
\* a wallet balance that covers its amount, so that only gas can fall short.
MaxTenths == 4
Tenths == 1..MaxTenths

\* Admin gas credit: balance_usd: increment(amount).  `col = col + $1` adds
\* decimals, FieldValue.increment adds doubles.
TwinCredit(a) ==
    /\ twin.n < MaxRequests
    /\ twin' = [sql |-> twin.sql + a,
                firestore |-> DoubleAdd(twin.firestore, ToDouble(a)),
                status |-> [sql |-> "ok", firestore |-> "ok"],
                n |-> twin.n + 1]
    /\ UNCHANGED <<backend, req, pre, nreq, store, pc, loc, resp, hist>>

\* Withdraw with gas > 0: gas_bal, the number read from balance_usd, is compared with
\* gas in the handler, then balance_usd: increment(-gas).
TwinWithdraw(g) ==
    /\ twin.n < MaxRequests
    /\ LET gas == ToDouble(g)
           sqlShort == Less(ToDouble(twin.sql), gas)
           fsShort == Less(twin.firestore, gas)
       IN  twin' = [sql |-> IF sqlShort THEN twin.sql ELSE twin.sql - g,
                    firestore |-> IF fsShort THEN twin.firestore
                                  ELSE DoubleSub(twin.firestore, gas),
                    status |->
                        [sql |-> IF sqlShort THEN "InsufficientGasBalance" ELSE "ok",
                         firestore |-> IF fsShort THEN "InsufficientGasBalance"
                                       ELSE "ok"],
                    n |-> twin.n + 1]
    /\ UNCHANGED <<backend, req, pre, nreq, store, pc, loc, resp, hist>>

NextTwin ==
    \/ \E a \in Tenths : TwinCredit(a)
    \/ \E g \in Tenths : TwinWithdraw(g)

SpecTwin == Init /\ [][NextTwin]_vars

\* ------------------------------------------------------ claims: vocabulary
\* Signups racing on an empty store, their store calls interleaved; each
\* process serves one request, the processes are taken up in order and
\* arrive before the first store call, and no more of them than there are
\* uids to hand out.
SignupRace(p) ==
    \/ \E e \in Emails :
          /\ pc[p] = "idle"
          /\ \A q \in Procs : q < p => pc[q] # "idle"
          /\ \A q \in Procs : pc[q] \in {"idle", "signup_find"}
          /\ Cardinality({q \in Procs : pc[q] # "idle"}) < Cardinality(Uids)
          /\ SignupBegin(p, e, Pw6)
    \/ SignupFindAuth(p)
    \/ SignupCreateUser(p)
    \/ SignupCreateAuth(p)
    \/ SignupCreateBalance(p)
    \/ SignupAddDeposit(p)
    \/ ProfileGetUser(p)
    \/ ProfileGetBalance(p)

NextSignups == \E p \in Procs : SignupRace(p)

SpecSignups == Init /\ [][NextSignups]_vars

Idle == \A p \in Procs : ~Running(p)

\* Process p has answered a request of kind op with status st.
Answered(p, op, st) ==
    /\ pc[p] = "done"
    /\ req[p].op = op
    /\ resp[p].status = st

\* A ledger entry without its timestamp.
Bare(d) == [uid |-> d.uid, amount_usd |-> d.amount_usd, note |-> d.note]

\* The ledger entries appended since process p's request arrived.
Appended(p) ==
    [i \in 1..(Len(deposits) - pre[p].ndeposits) |->
        Bare(deposits[pre[p].ndeposits + i])]

Entry(uid, amount, note) == [uid |-> uid, amount_usd |-> amount, note |-> note]

\* The seeded store is one Spec reaches.
SeedReached ==
    /\ Idle
    /\ DOMAIN users = {SeedUid}
    /\ users[SeedUid].email = "a@x"
    /\ balances = (SeedUid :> [balance_usd |-> 1, wallet_balance_usd |-> MaxAmount])
    /\ Len(deposits) = 3
    /\ Bare(deposits[2]) = Entry(SeedUid, 1, NoteGasFee)
    /\ Bare(deposits[3]) = Entry(SeedUid, 0 - 1, NoteWithdraw)
    /\ topups[SeedUid] = MaxAmount + 1

\* A withdrawal of the seeded user on process 1 and, on the other processes,
\* gas credits to that user and reads of the profile and of the ledger, their
\* store calls interleaved.  Each process serves one request; the other
\* processes, being alike, are taken up in order.
MixedRace(p) ==
    \/ /\ p = 1
       /\ pc[p] = "idle"
       /\ \E g \in {Num(0), Num(1)}, d \in {Undefined, Num(MaxAmount + 1)} :
             WithdrawBegin(p, SeedUid, Num(1), g, d)
    \/ /\ p > 1
       /\ pc[p] = "idle"
       /\ \A q \in Procs : (1 < q /\ q < p) => pc[q] # "idle"
       /\ \/ CreditBegin(p, "credit_gas", ADMIN_KEY, SeedUid, Num(MaxAmount), NoNote)
          \/ ProfileBegin(p, SeedUid)
          \/ ListBegin(p, SeedUid)
    \/ WithdrawGet(p)
    \/ WithdrawBump(p)
    \/ WithdrawDeduct(p)
    \/ WithdrawRecord(p)
    \/ WithdrawGasRecord(p)
    \/ CreditGetUser(p)
    \/ CreditAddDeposit(p)
    \/ CreditGetBalance(p)
    \/ CreditWrite(p)
    \/ ProfileGetUser(p)
    \/ ProfileGetBalance(p)
    \/ ProfileRead(p)
    \/ ListQuery(p)

NextMixed == \E p \in Procs : MixedRace(p)

SpecMixed == InitSeeded /\ [][NextMixed]_vars

\* A signup or a register on process 1 and, on the other processes, admin
\* credits that may reach the new uid before its Balance row is written, their
\* store calls interleaved.  Each process serves one request; the other
\* processes, being alike, are taken up in order.
FreshRace(p) ==
    \/ /\ p = 1
       /\ pc[p] = "idle"
       /\ \/ SignupBegin(p, "a@x", Pw6)
          \/ \E u \in Uids : RegisterBegin(p, u, "a@x")
    \/ /\ p > 1
       /\ pc[p] = "idle"
       /\ \A q \in Procs : (1 < q /\ q < p) => pc[q] # "idle"
       /\ \E op \in {"credit_gas", "credit_home"}, u \in Uids :
             CreditBegin(p, op, ADMIN_KEY, u, Num(1), NoNote)
    \/ SignupFindAuth(p)
    \/ SignupCreateUser(p)
    \/ SignupCreateAuth(p)
    \/ SignupCreateBalance(p)
    \/ SignupAddDeposit(p)
    \/ RegisterSetUser(p)
    \/ RegisterGetBalance(p)
    \/ RegisterEnsureBalance(p)
    \/ RegisterEnsureDeposit(p)
    \/ RegisterAddDeposit(p)
    \/ CreditGetUser(p)
    \/ CreditAddDeposit(p)
    \/ CreditGetBalance(p)
    \/ CreditWrite(p)
    \/ ProfileGetUser(p)
    \/ ProfileGetBalance(p)

NextFresh == \E p \in Procs : FreshRace(p)

SpecFresh == Init /\ [][NextFresh]_vars

C2_ChecksAgainstOwnRead ==
    \A p \in Procs :
        (req[p].op = "withdraw" /\ pc[p] \notin {"idle", "withdraw_get"}
            /\ resp[p].status \in {"none", "ok"})
        => /\ loc[p].bal.exists
           /\ Number(req[p].amount).n <= loc[p].effectiveHome
           /\ Number(req[p].gas).n <= loc[p].bal.balance_usd
           /\ loc[p].effectiveHome >= loc[p].bal.wallet_balance_usd

\* Two withdrawals read the same starting Balance, neither relied on a
\* displayed balance, both succeeded, their amounts together exceed the
\* balance read, and the stored home balance is negative.
C2_OverWithdrawn ==
    \E p, q \in Procs :
        /\ p # q
        /\ Answered(p, "withdraw", "ok")
        /\ Answered(q, "withdraw", "ok")
        /\ req[p].uid = req[q].uid
        /\ loc[p].bal = loc[q].bal
        /\ loc[p].effectiveHome = loc[p].bal.wallet_balance_usd
        /\ loc[q].effectiveHome = loc[q].bal.wallet_balance_usd
        /\ Number(req[p].amount).n + Number(req[q].amount).n
               > loc[p].bal.wallet_balance_usd
        /\ balances[req[p].uid].wallet_balance_usd < 0

\* ---------------------------------------------------------------------- C3
\* C3: a withdrawal that succeeds without interleaving leaves
\* wallet_balance_usd = effectiveHome - amount and balance_usd = old - gas,
\* effectiveHome being displayedUsd when that is a finite number above the
\* stored home balance and the stored home balance otherwise; it appends one
\* {-amount, "withdraw"} record and, exactly when gas > 0, one {-gas, "gas_fee"}.
C3_WithdrawEffect ==
    Answered(1, "withdraw", "ok") =>
        LET u == req[1].uid
            amount == Number(req[1].amount).n
            gas == Number(req[1].gas).n
            old == pre[1].balances[u]
            shown == Number(req[1].displayed)
            effectiveHome == IF shown.finite /\ shown.n > old.wallet_balance_usd
                             THEN shown.n ELSE old.wallet_balance_usd
        IN  /\ amount > 0 /\ gas >= 0
            /\ balances[u].wallet_balance_usd = effectiveHome - amount
            /\ balances[u].balance_usd = old.balance_usd - gas
            /\ Appended(1) = <<Entry(u, 0 - amount, NoteWithdraw)>>
                             \o (IF gas > 0 THEN <<Entry(u, 0 - gas, NoteGasFee)>>
                                            ELSE << >>)

\* A withdrawal with a gas fee has succeeded against a displayed balance above
\* the stored one.
C3_Witness ==
    /\ Answered(1, "withdraw", "ok")
    /\ Number(req[1].gas).n > 0
    /\ Number(req[1].displayed).finite
    /\ Number(req[1].displayed).n > pre[1].balances[req[1].uid].wallet_balance_usd
    /\ Number(req[1].amount).n < Number(req[1].displayed).n

\* ---------------------------------------------------------------------- C4
\* C4: a well-formed withdrawal fails with UserNotFound when the uid has no
\* Balance, with InsufficientHomeBalance when amount > effectiveHome, and with
\* InsufficientGasBalance when gas > balance_usd (the home balance being
\* enough); each of these failures leaves every Balance and the ledger as
\* they were.
C4_WithdrawFailures ==
    (pc[1] = "done" /\ req[1].op = "withdraw" /\ resp[1].status # "InvalidInput") =>
        LET u == req[1].uid
            st == resp[1].status
            amount == Number(req[1].amount).n
            gas == Number(req[1].gas).n
            exists == u \in DOMAIN pre[1].balances
            old == IF exists THEN pre[1].balances[u] ELSE DefaultBalance
            shown == Number(req[1].displayed)
            effectiveHome == IF shown.finite /\ shown.n > old.wallet_balance_usd
                             THEN shown.n ELSE old.wallet_balance_usd
        IN  /\ ~exists => st = "UserNotFound"
            /\ (exists /\ amount > effectiveHome) => st = "InsufficientHomeBalance"
            /\ (exists /\ amount <= effectiveHome /\ gas > old.balance_usd)
                   => st = "InsufficientGasBalance"
            /\ st \in {"UserNotFound", "InsufficientHomeBalance",
                       "InsufficientGasBalance"}
                   => /\ balances = pre[1].balances
                      /\ Len(deposits) = pre[1].ndeposits

\* A withdrawal the home balance covers has failed on the gas balance.
C4_Witness ==
    /\ Answered(1, "withdraw", "InsufficientGasBalance")
    /\ pre[1].balances[req[1].uid].wallet_balance_usd > 0
    /\ Len(deposits) > 1

\* ---------------------------------------------------------------------- C5
\* An attempt marker: a note that starts with one of the two prefixes the
\* deposit-attempt handler writes.
StartsWith(s, prefix) ==
    /\ Len(s) >= Len(prefix)
    /\ SubSeq(s, 1, Len(prefix)) = prefix

IsAttemptNote(note) ==
    \/ StartsWith(note, DepositAttemptPrefix)
    \/ StartsWith(note, GasFeeAttemptPrefix)

\* The sum of amount_usd over the ledger entries with the given ids.
RECURSIVE SumAmounts(_)
SumAmounts(ids) ==
    IF ids = {} THEN 0
    ELSE LET i == CHOOSE x \in ids : TRUE
         IN  deposits[i].amount_usd + SumAmounts(ids \ {i})

\* The two balances of a uid added up, zero for a uid without a Balance.
TotalBalance(u) ==
    IF u \in DOMAIN balances
    THEN balances[u].balance_usd + balances[u].wallet_balance_usd
    ELSE 0

\* C5 as stated: after completed, non-interleaved operations with no store
\* failure, for every uid balance_usd + wallet_balance_usd equals the sum of
\* amount_usd over its records whose note is not an attempt marker, plus the
\* top-ups its withdrawals folded in.
C5_LedgerAccounting_ByNote ==
    (Idle /\ ~failed) =>
        \A u \in Uids :
            TotalBalance(u) =
                SumAmounts({i \in 1..Len(deposits) :
                               /\ deposits[i].uid = u
                               /\ ~IsAttemptNote(deposits[i].note)})
                + topups[u]

\* C5 as amended: the records left out of the sum are those a deposit-attempt
\* request appended, whatever their note; a home credit's record counts even
\* when the caller's note starts like an attempt marker.
C5_LedgerAccounting ==
    (Idle /\ ~failed) =>
        \A u \in Uids :
            TotalBalance(u) =
                SumAmounts({i \in 1..Len(deposits) :
                               deposits[i].uid = u /\ i \notin attempts})
                + topups[u]

\* A uid's ledger holds a deposit attempt's record and a home credit's record
\* whose note starts like an attempt marker.
C5_Witness ==
    /\ Idle
    /\ \E i, j \in 1..Len(deposits) :
          /\ deposits[i].uid = deposits[j].uid
          /\ i \in attempts
          /\ j \notin attempts
          /\ IsAttemptNote(deposits[j].note)
          /\ deposits[j].amount_usd > 0

\* ---------------------------------------------------------------------- C6
\* C6: an admin gas credit to an existing user with a finite amount > 0 that
\* is served without a store failure succeeds, appends exactly one record
\* {amount, "gas_fee"}, raises balance_usd by amount and leaves
\* wallet_balance_usd alone; without a Balance row it creates
\* {balance_usd = amount, wallet_balance_usd = 0}.
C6_GasCredit ==
    (/\ pc[1] = "done" /\ req[1].op = "credit_gas" /\ req[1].key = ADMIN_KEY
     /\ req[1].uid \in pre[1].users
     /\ Number(req[1].amount).finite /\ Number(req[1].amount).n > 0
     /\ resp[1].status # "StoreFailure") =>
        LET u == req[1].uid
            amount == Number(req[1].amount).n
        IN  /\ resp[1].status = "ok"
            /\ Appended(1) = <<Entry(u, amount, NoteGasFee)>>
            /\ u \in DOMAIN balances
            /\ IF u \in DOMAIN pre[1].balances
               THEN /\ balances[u].balance_usd = pre[1].balances[u].balance_usd + amount
                    /\ balances[u].wallet_balance_usd
                           = pre[1].balances[u].wallet_balance_usd
               ELSE /\ balances[u].balance_usd = amount
                    /\ balances[u].wallet_balance_usd = 0

\* A gas credit has created the Balance row of a user that had none.
C6_Witness ==
    /\ Answered(1, "credit_gas", "ok")
    /\ req[1].uid \notin DOMAIN pre[1].balances
    /\ balances[req[1].uid].balance_usd > 0

\* ---------------------------------------------------------------------- C7
\* C7: an admin home credit to an existing user with a finite amount > 0 that
\* is served without a store failure succeeds, appends exactly one record
\* {amount, the caller's note or "wallet" when there is none}, raises
\* wallet_balance_usd by amount and leaves balance_usd alone; without a
\* Balance row it creates {balance_usd = 0, wallet_balance_usd = amount}.
C7_HomeCredit ==
    (/\ pc[1] = "done" /\ req[1].op = "credit_home" /\ req[1].key = ADMIN_KEY
     /\ req[1].uid \in pre[1].users
     /\ Number(req[1].amount).finite /\ Number(req[1].amount).n > 0
     /\ resp[1].status # "StoreFailure") =>
        LET u == req[1].uid
            amount == Number(req[1].amount).n
            note == IF req[1].note = NoNote THEN NoteWallet ELSE req[1].note
        IN  /\ resp[1].status = "ok"
            /\ Appended(1) = <<Entry(u, amount, note)>>
            /\ u \in DOMAIN balances
            /\ IF u \in DOMAIN pre[1].balances
               THEN /\ balances[u].wallet_balance_usd
                           = pre[1].balances[u].wallet_balance_usd + amount
                    /\ balances[u].balance_usd = pre[1].balances[u].balance_usd
               ELSE /\ balances[u].wallet_balance_usd = amount
                    /\ balances[u].balance_usd = 0

\* A home credit carrying a note of its own has created the Balance row of a
\* user that had none.
C7_Witness ==
    /\ Answered(1, "credit_home", "ok")
    /\ req[1].uid \notin DOMAIN pre[1].balances
    /\ req[1].note = NoteBonus
    /\ balances[req[1].uid].wallet_balance_usd > 0

\* ---------------------------------------------------------------------- C8
\* The amounts the given processes credited to one Balance field.
RECURSIVE Credited(_, _)
Credited(ps, op) ==
    IF ps = {} THEN 0
    ELSE LET p == CHOOSE x \in ps : TRUE
         IN  (IF req[p].op = op THEN Number(req[p].amount).n ELSE 0)
             + Credited(ps \ {p}, op)

\* C8: however the store steps of concurrent admin credits to a uid with a
\* Balance row interleave, once they are all served each has succeeded, the
\* row holds the initial values plus every credited amount, and one record
\* per credit was appended.
C8_NoCreditLost ==
    Idle =>
        /\ \A p \in Procs : pc[p] = "done" => resp[p].status = "ok"
        /\ balances[SeedUid].balance_usd
               = SeedBalance.balance_usd + Credited(Procs, "credit_gas")
        /\ balances[SeedUid].wallet_balance_usd
               = SeedBalance.wallet_balance_usd + Credited(Procs, "credit_home")
        /\ Len(deposits)
               = Len(SeedLedger) + Cardinality({p \in Procs : pc[p] = "done"})

\* Every process has served a gas credit, and all of them read the Balance
\* before any of them wrote it.
C8_Witness ==
    /\ \A p \in Procs :
          /\ Answered(p, "credit_gas", "ok")
          /\ loc[p].bal.exists
          /\ loc[p].bal.balance_usd = SeedBalance.balance_usd
    /\ balances[SeedUid].balance_usd > SeedBalance.balance_usd + MaxAmount

\* ---------------------------------------------------------------------- C9
\* C9: an admin credit with a missing uid or an amount that is not finite or
\* not above zero fails with InvalidInput, one whose uid names no User fails
\* with UserNotFound; neither appends a record nor creates or changes a
\* Balance.
C9_CreditErrors ==
    (pc[1] = "done" /\ IsCredit(1) /\ req[1].key = ADMIN_KEY) =>
        LET invalid == \/ req[1].uid = NoUid
                       \/ ~Number(req[1].amount).finite
                       \/ Number(req[1].amount).n <= 0
        IN  /\ invalid => resp[1].status = "InvalidInput"
            /\ (~invalid /\ req[1].uid \notin pre[1].users)
                   => resp[1].status = "UserNotFound"
            /\ resp[1].status \in {"InvalidInput", "UserNotFound"}
                   => /\ balances = pre[1].balances
                      /\ Len(deposits) = pre[1].ndeposits

\* A home credit to an unknown uid was refused while another user has a
\* Balance and a ledger.
C9_Witness ==
    /\ Answered(1, "credit_home", "UserNotFound")
    /\ DOMAIN balances # {}
    /\ Len(deposits) > 0

\* --------------------------------------------------------------------- C10
\* C10: after a successful signup the new uid has a User, an AuthCredential
\* and a Balance {0, 0}, the profile returned shows both balances as 0, and
\* exactly one record with note "default" and amount 0 exists for the uid.
C10_SignupEffect ==
    Answered(1, "signup", "ok") =>
        LET u == loc[1].uid
        IN  /\ u \notin pre[1].users
            /\ u \in DOMAIN users /\ users[u].email = req[1].email
            /\ u \in DOMAIN user_auth
            /\ user_auth[u].email = req[1].email
            /\ user_auth[u].password_hash = hashPassword(req[1].password)
            /\ u \in DOMAIN balances
            /\ balances[u].balance_usd = 0
            /\ balances[u].wallet_balance_usd = 0
            /\ resp[1].profile.uid = u
            /\ resp[1].profile.balance_usd = 0
            /\ resp[1].profile.wallet_balance_usd = 0
            /\ Cardinality({i \in 1..Len(deposits) :
                               /\ deposits[i].uid = u
                               /\ deposits[i].note = NoteDefault
                               /\ deposits[i].amount_usd = 0}) = 1

\* A second user has signed up after the first one's balances had moved.
C10_Witness ==
    /\ Answered(1, "signup", "ok")
    /\ Cardinality(DOMAIN users) = 2
    /\ \E u \in DOMAIN pre[1].balances : pre[1].balances[u].wallet_balance_usd > 0

\* --------------------------------------------------------------------- C11
\* C11: a signup with a missing email, a missing password or a password of
\* fewer than 6 characters fails with InvalidInput and leaves the whole store
\* (users, credentials, balances, ledger) as it was.
C11_SignupInvalid ==
    (/\ pc[1] = "done" /\ req[1].op = "signup"
     /\ \/ req[1].email = NoEmail
        \/ req[1].password = NoPw
        \/ Len(req[1].password) < 6) =>
        /\ resp[1].status = "InvalidInput"
        /\ store = pre[1].store

\* A signup with a five-character password was refused on a store that
\* already holds a user.
C11_Witness ==
    /\ Answered(1, "signup", "InvalidInput")
    /\ req[1].email # NoEmail
    /\ Len(req[1].password) = 5
    /\ DOMAIN users # {}

\* --------------------------------------------------------------------- C12
\* C12: a well-formed signup whose email already has an AuthCredential fails
\* with EmailExists and changes nothing in the store; with signups served one
\* at a time no two AuthCredentials share an email.
C12_EmailExists ==
    /\ (/\ pc[1] = "done" /\ req[1].op = "signup"
        /\ req[1].email # NoEmail /\ Len(req[1].password) >= 6
        /\ \E u \in DOMAIN pre[1].store[2] :
               pre[1].store[2][u].email = req[1].email) =>
           /\ resp[1].status = "EmailExists"
           /\ store = pre[1].store
    /\ \A u, v \in DOMAIN user_auth :
           user_auth[u].email = user_auth[v].email => u = v

\* A second signup with an email in use was refused.
C12_Witness ==
    /\ Answered(1, "signup", "EmailExists")
    /\ \E u \in DOMAIN user_auth : user_auth[u].email = req[1].email

\* --------------------------------------------------------------------- C13
\* C13: email uniqueness in every reachable state, concurrent signups with
\* one email included: at most one AuthCredential carries an email, and at
\* most one of the signups with that email succeeds.
C13_EmailUniqueConcurrent ==
    /\ \A u, v \in DOMAIN user_auth :
           user_auth[u].email = user_auth[v].email => u = v
    /\ \A p, q \in Procs :
           (/\ Answered(p, "signup", "ok") /\ Answered(q, "signup", "ok")
            /\ req[p].email = req[q].email) => p = q

\* --------------------------------------------------------------------- C14
\* C14: after a signup(email, password) has succeeded, whatever was served in
\* between, a login with that email and password succeeds with a profile of
\* the uid the signup was given; a login with an unknown email fails with
\* NotFound or InvalidCredentials, one with a wrong password for a known
\* email with InvalidCredentials; no login changes the store.
C14_LoginAfterSignup ==
    (pc[1] = "done" /\ req[1].op = "login") =>
        LET e == req[1].email
            pw == req[1].password
            wellFormed == e # NoEmail /\ pw # NoPw
            known == \E u \in DOMAIN pre[1].store[2] : pre[1].store[2][u].email = e
        IN  /\ store = pre[1].store
            /\ \A s \in signups :
                  (s.email = e /\ s.password = pw) =>
                      /\ resp[1].status = "ok"
                      /\ resp[1].profile.uid = s.uid
            /\ (wellFormed /\ ~known)
                   => resp[1].status \in {"NotFound", "InvalidCredentials"}
            /\ (wellFormed /\ known /\ \A s \in signups : s.email = e => s.password # pw)
                   => resp[1].status = "InvalidCredentials"

\* A login has succeeded for a user whose balance an admin credit raised
\* after the signup.
C14_Witness ==
    /\ Answered(1, "login", "ok")
    /\ \E s \in signups :
          /\ s.email = req[1].email
          /\ resp[1].profile.uid = s.uid
          /\ resp[1].profile.balance_usd + resp[1].profile.wallet_balance_usd > 0

\* --------------------------------------------------------------------- C15
\* C15: on either server, whatever the ledger has come to hold, the deposit
\* listing of a uid returns no record whose note starts with
\* "deposit_attempt_" or "gas_fee_attempt_".
C15_ListingHidesAttempts ==
    Answered(1, "list", "ok") =>
        \A k \in 1..Len(resp[1].deposits) : ~IsAttemptNote(resp[1].deposits[k].note)

\* A listing has returned records of a uid whose ledger also holds an attempt
\* record.
C15_Witness ==
    /\ Answered(1, "list", "ok")
    /\ Len(resp[1].deposits) > 0
    /\ \E i \in 1..Len(deposits) :
          /\ deposits[i].uid = req[1].uid
          /\ IsAttemptNote(deposits[i].note)

\* --------------------------------------------------------------------- C16
\* C16: the deposit listing returns at most 20 records, all of the requested
\* uid, by non-increasing created_at, and they are the most recent records
\* that are no attempt records: a record of the uid whose note is no attempt
\* marker is left out only when 20 records at least as recent are returned.
C16_ListingMostRecent ==
    Answered(1, "list", "ok") =>
        LET rows == resp[1].deposits
            u == req[1].uid
        IN  /\ Len(rows) <= 20
            /\ \A k \in 1..Len(rows) :
                  /\ rows[k].uid = u
                  /\ rows[k].id \in 1..Len(deposits)
                  /\ Bare(rows[k]) = Bare(deposits[rows[k].id])
                  /\ ~IsAttemptNote(rows[k].note)
            /\ \A k \in 1..(Len(rows) - 1) :
                  rows[k].created_at >= rows[k + 1].created_at
            /\ \A i \in 1..Len(deposits) :
                  (deposits[i].uid = u /\ ~IsAttemptNote(deposits[i].note)) =>
                      \/ \E k \in 1..Len(rows) : rows[k].id = i
                      \/ /\ Len(rows) = 20
                         /\ \A k \in 1..Len(rows) :
                               rows[k].created_at >= deposits[i].created_at

\* --------------------------------------------------------------------- C17
\* C17: the ledger is append-only: no step of any operation changes or
\* removes a record the ledger already holds.
C17_LedgerAppendOnly ==
    [][/\ Len(deposits') >= Len(deposits)
       /\ \A i \in 1..Len(deposits) : deposits'[i] = deposits[i]]_vars

\* A withdrawal has appended to a ledger that already held records.
C17_Witness ==
    /\ Answered(1, "withdraw", "ok")
    /\ pre[1].ndeposits >= 1
    /\ Len(deposits) > pre[1].ndeposits

\* --------------------------------------------------------------------- C18
\* C18: when a store call fails during a withdrawal the handler answers
\* StoreFailure and undoes nothing: the store stays as the writes made before
\* the failure left it.
C18_NoRecovery ==
    [][(req[1].op = "withdraw" /\ Running(1) /\ resp'[1].status = "StoreFailure") =>
          /\ pc'[1] = "done"
          /\ store' = store]_vars

\* A withdrawal answered StoreFailure after the deduction and before the
\* "withdraw" record: both balances are lower than at arrival and the ledger
\* has no new record.
C18_Witness ==
    /\ Answered(1, "withdraw", "StoreFailure")
    /\ req[1].uid \in DOMAIN balances
    /\ balances[req[1].uid].wallet_balance_usd
           < pre[1].balances[req[1].uid].wallet_balance_usd
    /\ balances[req[1].uid].balance_usd < pre[1].balances[req[1].uid].balance_usd
    /\ Len(deposits) = pre[1].ndeposits

\* --------------------------------------------------------------------- C19
\* C19: on either server a stock update with the admin key and valid inputs
\* succeeds and stores, under the key company, current_price =
\* currentPrice * (100 + percentage) / 100 for up and currentPrice *
\* (100 - percentage) / 100 for down (here in hundredths), percentage_change =
\* percentage and the direction; there is one quote per company however
\* often it is updated; and the stock listing answers with the stored quotes.
C19_StockUpdate ==
    /\ (/\ pc[1] = "done"
        /\ req[1].op = "stock_update"
        /\ req[1].key = ADMIN_KEY
        /\ ~StockInvalid(req[1].company, req[1].currentPrice, req[1].percentage,
                         req[1].direction)) =>
           /\ resp[1].status = "ok"
           /\ req[1].company \in DOMAIN stocks
           /\ LET q == stocks[req[1].company]
                  price == req[1].currentPrice.v
                  pct == req[1].percentage.v
              IN  /\ q.current_price =
                        IF req[1].direction = "up" THEN price * (100 + pct)
                                                   ELSE price * (100 - pct)
                  /\ q.percentage_change = pct
                  /\ q.direction = req[1].direction
    /\ \A c \in DOMAIN stocks : stocks[c].company = c
    /\ (pc[1] = "done" /\ req[1].op = "stocks") =>
           /\ resp[1].status = "ok"
           /\ \A c \in DOMAIN stocks :
                 Cardinality({k \in 1..Len(resp[1].stocks) :
                                 resp[1].stocks[k] = stocks[c]}) = 1
           /\ Len(resp[1].stocks) = Cardinality(DOMAIN stocks)

\* --------------------------------------------------------------------- C20
\* C20: a percentage update with the admin key and valid inputs, given a uid,
\* answers UserNotFound and stores nothing when no user has the uid, and
\* otherwise stores the setting under the uid and answers scope "user"; given
\* no uid it stores the setting under the global sentinel and answers scope
\* "global", on either server and whether or not a user has the sentinel as
\* its uid.
C20_PercentageUpdate ==
    (/\ pc[1] = "done"
     /\ req[1].op = "percentage_update"
     /\ req[1].key = ADMIN_KEY
     /\ ~PercentageInvalid(req[1].value, req[1].direction)) =>
        LET u == req[1].uid
            key == IF u = NoUid THEN GLOBAL_UID ELSE u
            stored == /\ resp[1].status = "ok"
                      /\ key \in DOMAIN user_percentages
                      /\ user_percentages[key].value = req[1].value.v
                      /\ user_percentages[key].direction = req[1].direction
                      /\ resp[1].percentage.value = req[1].value.v
                      /\ resp[1].percentage.direction = req[1].direction
                      /\ \A k \in DOMAIN pre[1].store[6] \ {key} :
                            /\ k \in DOMAIN user_percentages
                            /\ user_percentages[k] = pre[1].store[6][k]
        IN  IF u # NoUid /\ u \notin pre[1].users
            THEN resp[1].status = "UserNotFound" /\ store = pre[1].store
            ELSE IF u # NoUid
            THEN stored /\ resp[1].scope = "user"
            ELSE stored /\ resp[1].scope = "global"

\* --------------------------------------------------------------------- C21
\* C21: the current percentage of a uid that has a setting of its own is that
\* setting; without a uid, or for a uid that has none, it is the setting
\* under the global sentinel; when neither exists it is value 0, direction
\* "neutral".  The request changes no stored record.
C21_ResolvePercentage ==
    (pc[1] = "done" /\ req[1].op = "percentage_current") =>
        LET u == req[1].uid
            expected == IF u # NoUid /\ u \in DOMAIN user_percentages
                        THEN user_percentages[u]
                        ELSE IF GLOBAL_UID \in DOMAIN user_percentages
                        THEN user_percentages[GLOBAL_UID]
                        ELSE [value |-> 0, direction |-> "neutral"]
        IN  /\ resp[1].status = "ok"
            /\ resp[1].percentage.value = expected.value
            /\ resp[1].percentage.direction = expected.direction
            /\ store = pre[1].store

\* The setting of a uid has been returned to a request naming that uid.
C21_Witness ==
    /\ Answered(1, "percentage_current", "ok")
    /\ req[1].uid \in DOMAIN user_percentages
    /\ resp[1].percentage.value > 0

\* --------------------------------------------------------------------- C22
\* C22: the profile read changes no stored record and its answer is a
\* function of the store alone (so two reads with no write in between answer
\* alike): the user's uid and email with the stored balance_usd and
\* wallet_balance_usd, both 0 when the user has no Balance row.
C22_ProfilePureRead ==
    (pc[1] = "done" /\ req[1].op = "profile") =>
        LET u == req[1].uid
        IN  /\ store = pre[1].store
            /\ resp[1].status = IF u \in DOMAIN users THEN "ok" ELSE "NotFound"
            /\ u \in DOMAIN users =>
                  /\ resp[1].profile.uid = u
                  /\ resp[1].profile.email = users[u].email
                  /\ resp[1].profile.balance_usd =
                        IF u \in DOMAIN balances THEN balances[u].balance_usd ELSE 0
                  /\ resp[1].profile.wallet_balance_usd =
                        IF u \in DOMAIN balances THEN balances[u].wallet_balance_usd
                        ELSE 0

\* The profile of a user with a credited balance has been read.
C22_Witness ==
    /\ Answered(1, "profile", "ok")
    /\ resp[1].profile.balance_usd > 0

\* --------------------------------------------------------------------- C27
\* C27: the admin's user listing returns every User exactly once, by
\* non-increasing created_at, each with the balance_usd and
\* wallet_balance_usd of its Balance row, 0 and 0 when it has none, and
\* changes no stored record.
C27_UserListing ==
    Answered(1, "users", "ok") =>
        LET rows == resp[1].users
        IN  /\ store = pre[1].store
            /\ Len(rows) = Cardinality(DOMAIN users)
            /\ \A u \in DOMAIN users :
                  \E k \in 1..Len(rows) :
                      /\ rows[k].uid = u
                      /\ rows[k].email = users[u].email
                      /\ rows[k].created_at = users[u].created_at
                      /\ rows[k].balance_usd =
                            IF u \in DOMAIN balances THEN balances[u].balance_usd ELSE 0
                      /\ rows[k].wallet_balance_usd =
                            IF u \in DOMAIN balances
                            THEN balances[u].wallet_balance_usd ELSE 0
            /\ \A k \in 1..(Len(rows) - 1) :
                  rows[k].created_at >= rows[k + 1].created_at

\* Two users have been listed.
C27_Witness ==
    /\ Answered(1, "users", "ok")
    /\ Len(resp[1].users) = 2

\* --------------------------------------------------------------------- C23
\* C23: a gas credit, home credit, stock update, percentage update, user
\* listing or admin deposit listing that carries another admin key than the
\* configured one, or none, answers Unauthorized whatever its body is, and
\* leaves the whole store as it was.
C23_Unauthorized ==
    (/\ pc[1] = "done"
     /\ req[1].op \in {"credit_gas", "credit_home", "stock_update",
                       "percentage_update", "users", "admin_list"}
     /\ req[1].key # ADMIN_KEY) =>
        /\ resp[1].status = "Unauthorized"
        /\ store = pre[1].store

\* A credit with a wrong key and a malformed body has been refused as
\* unauthorized, on a store that earlier requests had changed.
C23_Witness ==
    /\ Answered(1, "credit_gas", "Unauthorized")
    /\ req[1].key = BadKey
    /\ CreditInvalid(req[1].uid, req[1].amount)
    /\ Len(deposits) > Len(SeedLedger)
    /\ DOMAIN stocks # {}

\* --------------------------------------------------------------------- C24
\* C24: after every sequence of requests, the relational store and the
\* document store hold the same balance_usd and have given the last request
\* the same outcome.
C24_BackendEquivalence ==
    /\ twin.status.sql = twin.status.firestore
    /\ ToDouble(twin.sql) = twin.firestore

\* --------------------------------------------------------------------- C25
\* C25: no step removes a User or changes its email or created_at; a register
\* request for a uid that has a User leaves both as they were.
C25_UserImmutable ==
    [][\A u \in DOMAIN users :
          /\ u \in DOMAIN users'
          /\ users'[u].email = users[u].email
          /\ users'[u].created_at = users[u].created_at]_vars

\* --------------------------------------------------------------------- C26
\* C26: every uid of a signup or register request answered ok has its Balance
\* row, and no step takes a Balance row away.  The rows are keyed by uid, so
\* that a uid never has two.
C26_OneBalance ==
    /\ [](\A s \in signups : s.uid \in DOMAIN balances)
    /\ [](\A p \in Procs :
             (pc[p] = "done" /\ req[p].op = "register" /\ resp[p].status = "ok")
                 => req[p].uid \in DOMAIN balances)
    /\ [][DOMAIN balances \subseteq DOMAIN balances']_vars

\* A register has created the Balance of its uid after a signup created another.
C26_Witness ==
    /\ signups # {}
    /\ \E p \in Procs :
           /\ pc[p] = "done"
           /\ req[p].op = "register"
           /\ resp[p].status = "ok"
           /\ req[p].uid \notin DOMAIN pre[p].balances
           /\ req[p].uid \in DOMAIN balances

\* --------------------------------------------------------------------- C28
\* C28: once a withdrawal with gas = 0 and the gas credits that ran beside it
\* have all been answered, balance_usd is what it was before plus every
\* credited amount: the withdrawal has not touched it.
C28_GasZeroKeepsCredit ==
    (Idle /\ Answered(1, "withdraw", "ok") /\ Number(req[1].gas).n = 0)
        => balances[SeedUid].balance_usd
               = SeedBalance.balance_usd + Credited(Procs, "credit_gas")

\* --------------------------------------------------------------------- C29
\* What the credits of kind op that were answered ok have given to uid.
RECURSIVE CreditedTo(_, _, _)
CreditedTo(ps, op, uid) ==
    IF ps = {} THEN 0
    ELSE LET p == CHOOSE x \in ps : TRUE
         IN  (IF Answered(p, op, "ok") /\ req[p].uid = uid
              THEN Number(req[p].amount).n ELSE 0)
             + CreditedTo(ps \ {p}, op, uid)

\* C29: once a signup or register and the admin credits that ran beside it
\* have all been answered, every uid holds every credit that was answered ok,
\* its Balance having started from zero.
C29_NoCreditLostOnNewRow ==
    Idle =>
        \A u \in Uids :
            /\ GetBalance(u).balance_usd = CreditedTo(Procs, "credit_gas", u)
            /\ GetBalance(u).wallet_balance_usd = CreditedTo(Procs, "credit_home", u)

\* --------------------------------------------------------------------- C30
\* The step appends one record with this note and an amount of this sign.
Appends(note, negative) ==
    /\ Len(deposits') = Len(deposits) + 1
    /\ deposits'[Len(deposits')].note = note
    /\ (deposits'[Len(deposits')].amount_usd < 0) = negative

\* The ledger holds the record of the credit process p serves.
CreditRecorded(p) ==
    \E i \in 1..Len(deposits) :
        /\ deposits[i].uid = req[p].uid
        /\ deposits[i].amount_usd = Number(req[p].amount).n
        /\ deposits[i].note = NoteGasFee
        /\ deposits[i].created_at = pre[p].now

\* C30: the writes of a withdrawal are separate steps in a fixed order: the
\* top-up of wallet_balance_usd to the displayed value, the deduction, the
\* "withdraw" record, the "gas_fee" record; no step writes both a Balance and
\* the ledger; and a gas credit raises balance_usd only after its record is
\* in the ledger.  Reads running beside the withdrawal see the states between.
C30_WithdrawOrder ==
    [][LET wallet == balances[SeedUid].wallet_balance_usd
           walletNext == balances'[SeedUid].wallet_balance_usd
       IN  /\ walletNext > wallet
                  => /\ pc[1] = "withdraw_bump" /\ pc'[1] = "withdraw_deduct"
                     /\ walletNext = Number(req[1].displayed).n
           /\ walletNext < wallet
                  => /\ pc[1] = "withdraw_deduct" /\ pc'[1] = "withdraw_record"
                     /\ walletNext = wallet - Number(req[1].amount).n
           /\ Appends(NoteWithdraw, TRUE)
                  => /\ pc[1] = "withdraw_record"
                     /\ pc'[1] = IF Number(req[1].gas).n > 0
                                 THEN "withdraw_gas_record" ELSE "profile_user"
           /\ Appends(NoteGasFee, TRUE)
                  => pc[1] = "withdraw_gas_record" /\ pc'[1] = "profile_user"
           /\ balances' # balances => deposits' = deposits
           /\ balances'[SeedUid].balance_usd > balances[SeedUid].balance_usd
                  => \E p \in Procs : /\ pc[p] = "credit_write"
                                      /\ pc'[p] # pc[p]
                                      /\ CreditRecorded(p)]_vars

\* A profile read beside the withdrawal has answered the displayed value as
\* wallet_balance_usd, and the withdrawal has since deducted its amount
\* without yet having its record in the ledger.
C30_Witness ==
    /\ Answered(2, "profile", "ok")
    /\ resp[2].profile.wallet_balance_usd = Number(req[1].displayed).n
    /\ resp[2].profile.wallet_balance_usd > SeedBalance.wallet_balance_usd
    /\ pc[1] = "withdraw_record"
    /\ balances[SeedUid].wallet_balance_usd
           = Number(req[1].displayed).n - Number(req[1].amount).n
    /\ \A i \in 1..Len(deposits) : deposits[i].note # NoteWithdraw
                                   \/ deposits[i].created_at # pre[1].now

\* --------------------------------------------------------------------- C31
\* C31: the checks of a withdrawal run in a fixed order.  A malformed body is
\* answered InvalidInput without the Balance being read, whether or not the
\* uid has one; a well-formed body for a uid without Balance is answered
\* UserNotFound whatever its amounts; InsufficientGasBalance is answered only
\* when the home balance covers the amount, so a withdrawal short on both
\* balances is answered InsufficientHomeBalance.
C31_CheckOrder ==
    req[1].op = "withdraw" =>
        LET u == req[1].uid
            amount == Number(req[1].amount).n
            gas == Number(req[1].gas).n
            invalid == WithdrawInvalid(u, req[1].amount, req[1].gas)
            exists == u \in DOMAIN pre[1].balances
            old == IF exists THEN pre[1].balances[u] ELSE DefaultBalance
            eff == EffectiveHome(req[1].displayed, old.wallet_balance_usd)
            st == resp[1].status
        IN  /\ invalid => /\ pc[1] = "done"
                          /\ st = "InvalidInput"
                          /\ ~loc[1].bal.exists
            /\ pc[1] = "done" =>
                  /\ st = "InvalidInput" <=> invalid
                  /\ st = "UserNotFound" <=> (~invalid /\ ~exists)
                  /\ st = "InsufficientHomeBalance"
                         <=> (~invalid /\ exists /\ eff < amount)
                  /\ st = "InsufficientGasBalance"
                         <=> (~invalid /\ exists /\ eff >= amount
                              /\ old.balance_usd < gas)

\* A withdrawal short on both balances has been answered.
C31_Witness ==
    /\ Answered(1, "withdraw", "InsufficientHomeBalance")
    /\ pre[1].balances[req[1].uid].balance_usd < Number(req[1].gas).n
    /\ EffectiveHome(req[1].displayed, pre[1].balances[req[1].uid].wallet_balance_usd)
           < Number(req[1].amount).n

\* --------------------------------------------------------------------- C32
\* What a withdrawal without displayedUsd does to a Balance: its status and
\* the Balance it leaves.
Plainly(old, amount, gas) ==
    IF old.wallet_balance_usd < amount
    THEN [status |-> "InsufficientHomeBalance", bal |-> old]
    ELSE IF old.balance_usd < gas
    THEN [status |-> "InsufficientGasBalance", bal |-> old]
    ELSE [status |-> "ok",
          bal |-> [balance_usd |-> old.balance_usd - gas,
                   wallet_balance_usd |-> old.wallet_balance_usd - amount]]

\* C32: a withdrawal whose displayedUsd converts to a finite number that
\* covers the amount passes the home check whatever wallet_balance_usd is
\* stored, zero included; once it has completed with a displayedUsd above
\* the stored balance, wallet_balance_usd is displayedUsd - amount; and a
\* displayedUsd that is missing, that converts to no number, or that is not
\* above the stored balance leaves status and Balance as the same withdrawal
\* without displayedUsd would.
C32_DisplayedBalance ==
    (pc[1] = "done" /\ req[1].op = "withdraw") =>
        LET u == req[1].uid
            st == resp[1].status
            amount == Number(req[1].amount).n
            gas == Number(req[1].gas).n
            old == pre[1].balances[u]
            shown == Number(req[1].displayed)
        IN  /\ (shown.finite /\ shown.n >= amount) => st # "InsufficientHomeBalance"
            /\ (st = "ok" /\ shown.finite /\ shown.n > old.wallet_balance_usd)
                   => /\ balances[u].wallet_balance_usd = shown.n - amount
                      /\ resp[1].profile.wallet_balance_usd = shown.n - amount
            /\ (~shown.finite \/ shown.n <= old.wallet_balance_usd)
                   => /\ st = Plainly(old, amount, gas).status
                      /\ balances[u] = Plainly(old, amount, gas).bal

\* A withdrawal from a stored home balance of zero has completed against the
\* displayed balance.
C32_Witness ==
    /\ Answered(1, "withdraw", "ok")
    /\ pre[1].balances[req[1].uid].wallet_balance_usd = 0
    /\ req[1].displayed.t = "num"
    /\ Number(req[1].displayed).n > Number(req[1].amount).n
    /\ balances[req[1].uid].wallet_balance_usd > 0

\* --------------------------------------------------------------------- C33
\* The rows are records of the uid, each once, the latest ones: as many as
\* the uid has or the limit, in non-increasing created_at order, and no
\* record left out is later than one listed.
LatestOf(rows, uid, limit) ==
    LET all == {i \in 1..Len(deposits) : deposits[i].uid = uid}
        ids == {rows[k].id : k \in 1..Len(rows)}
    IN  /\ Len(rows) = IF Cardinality(all) < limit THEN Cardinality(all) ELSE limit
        /\ ids \subseteq all
        /\ Cardinality(ids) = Len(rows)
        /\ \A k \in 1..Len(rows) :
              /\ rows[k].note = deposits[rows[k].id].note
              /\ rows[k].created_at = deposits[rows[k].id].created_at
        /\ \A k \in 1..(Len(rows) - 1) : rows[k].created_at >= rows[k + 1].created_at
        /\ \A i \in all \ ids, k \in 1..Len(rows) :
              deposits[i].created_at <= rows[k].created_at

\* C33: a deposit attempt for an existing user appends exactly one record,
\* whose note starts with "gas_fee_attempt_" when depositType is gas_fee and
\* with "deposit_attempt_" otherwise, and changes no Balance; for a uid
\* without User it is answered UserNotFound and appends nothing.  The admin
\* deposit listing answers the uid's latest records, attempts among them: at
\* most 50, in non-increasing created_at order; the user listing answers no
\* attempt.
C33_AttemptAndAdminListing ==
    /\ Answered(1, "attempt", "ok") =>
          /\ req[1].uid \in pre[1].users
          /\ Len(deposits) = pre[1].ndeposits + 1
          /\ SubSeq(deposits, 1, pre[1].ndeposits) = pre[1].store[4]
          /\ deposits[Len(deposits)].uid = req[1].uid
          /\ StartsWith(deposits[Len(deposits)].note,
                        IF req[1].depositType = DepositTypeGas
                        THEN GasFeeAttemptPrefix ELSE DepositAttemptPrefix)
          /\ balances = pre[1].balances
    /\ (pc[1] = "done" /\ req[1].op = "attempt"
        /\ ~AttemptInvalid(req[1].uid, req[1].amount, req[1].asset, req[1].address)
        /\ req[1].uid \notin pre[1].users) =>
          /\ resp[1].status = "UserNotFound"
          /\ deposits = pre[1].store[4]
          /\ balances = pre[1].balances
    /\ Answered(1, "admin_list", "ok") =>
          /\ Len(resp[1].deposits) <= 50
          /\ LatestOf(resp[1].deposits, req[1].uid, 50)
    /\ Answered(1, "list", "ok") =>
          \A k \in 1..Len(resp[1].deposits) : ~IsAttemptNote(resp[1].deposits[k].note)

\* The admin listing has answered 50 records, a gas-fee attempt among them,
\* of a ledger that holds more.
C33_Witness ==
    /\ Answered(1, "admin_list", "ok")
    /\ Len(resp[1].deposits) = 50
    /\ Cardinality({i \in 1..Len(deposits) : deposits[i].uid = req[1].uid}) > 50
    /\ \E k \in 1..Len(resp[1].deposits) :
          StartsWith(resp[1].deposits[k].note, GasFeeAttemptPrefix)

\* --------------------------------------------------------------------- C34
\* C34: the register operation never lowers a balance.  Once a register and
\* the admin credits that ran beside it have all been answered, the uid's
\* balance_usd and wallet_balance_usd are not below the sums of the credits
\* answered ok; and a register for a uid that had a Balance leaves that
\* Balance as it was, with at most one "default" record of the uid in the
\* ledger.
C34_RegisterKeepsCredits ==
    (Idle /\ Answered(1, "register", "ok")) =>
        LET u == req[1].uid
        IN  /\ GetBalance(u).balance_usd >= CreditedTo(Procs \ {1}, "credit_gas", u)
            /\ GetBalance(u).wallet_balance_usd
                   >= CreditedTo(Procs \ {1}, "credit_home", u)
            /\ (u \in DOMAIN pre[1].balances /\ \A p \in Procs \ {1} : pc[p] = "idle")
                   => balances[u] = pre[1].balances[u]
            /\ Cardinality({i \in 1..Len(deposits) :
                               deposits[i].uid = u /\ deposits[i].note = NoteDefault}) <= 1

\* --------------------------------------------------------------------- C35
\* The statuses a handler answers with.
Statuses ==
    {"ok", "InvalidInput", "EmailExists", "UserNotFound",
     "InsufficientHomeBalance", "InsufficientGasBalance", "StoreFailure"}

\* C35: every request ends with exactly one response, success or one tagged
\* failure.  A running handler is answered in the end; an answer is written
\* only by the step that ends the handler; the step in which a store call
\* fails answers StoreFailure and writes nothing; and the handler writes
\* nothing afterwards: it neither goes on nor tries again.
C35_OneResponse ==
    /\ [](\A p \in Procs : /\ pc[p] = "done" <=> resp[p].status # "none"
                           /\ pc[p] = "done" => resp[p].status \in Statuses)
    /\ [][/\ resp'[1].status # "none" /\ resp'[1] # resp[1]
             => pc'[1] = "done" /\ (Running(1) \/ nreq' = nreq + 1)
          /\ (Running(1) /\ resp'[1].status = "StoreFailure")
             => pc'[1] = "done" /\ store' = store
          /\ (pc[1] = "done" /\ resp[1].status = "StoreFailure")
             => store' = store /\ (pc'[1] = "done" \/ nreq' = nreq + 1)]_vars
    /\ (Running(1) ~> pc[1] = "done")

\* A signup has been answered StoreFailure after its User row was written and
\* before its Balance row.
C35_Witness ==
    /\ Answered(1, "signup", "StoreFailure")
    /\ loc[1].uid \in DOMAIN users
    /\ loc[1].uid \notin DOMAIN balances

\* --------------------------------------------------------------------- C36
\* The step leaves what collection f holds under every key but k.
OnlyAt(f, g, k) ==
    /\ DOMAIN g \subseteq DOMAIN f \cup {k}
    /\ \A j \in DOMAIN f \ {k} : j \in DOMAIN g /\ g[j] = f[j]

\* C36: the frame of the mutating operations.  No step of a credit or
\* withdrawal for uid u changes the Balance of another uid or appends a
\* record of another uid, and none changes a User, an AuthCredential, a
\* StockQuote or a PercentageSetting; no step of a stock or percentage update
\* changes a Balance, a User or the ledger; and a percentage update for one
\* key, a uid or the global one, leaves the setting under every other key as
\* it was.
C36_Frame ==
    [][LET op == req'[1].op
           u == req'[1].uid
       IN  /\ op \in {"credit_gas", "credit_home", "withdraw"} =>
                 /\ OnlyAt(balances, balances', u)
                 /\ Len(deposits') >= Len(deposits)
                 /\ SubSeq(deposits', 1, Len(deposits)) = deposits
                 /\ \A i \in (Len(deposits) + 1)..Len(deposits') : deposits'[i].uid = u
                 /\ UNCHANGED <<users, user_auth, stocks, user_percentages>>
           /\ op \in {"stock_update", "percentage_update"} =>
                 UNCHANGED <<balances, users, deposits>>
           /\ op = "percentage_update" =>
                 OnlyAt(user_percentages, user_percentages',
                        IF u = NoUid THEN "__global__" ELSE u)]_vars

\* A setting has been stored under one key with another key's setting in
\* place, after a credit or withdrawal wrote to one of two Balances.
C36_Witness ==
    /\ Answered(1, "percentage_update", "ok")
    /\ Cardinality(DOMAIN user_percentages) >= 2
    /\ Len(deposits) > Len(PairLedger)
    /\ Cardinality(DOMAIN balances) >= 2

\* --------------------------------------------------------------------- C37
\* C37: a stock update is idempotent and independent of the stored quote.
\* The quote it stores is made of the request alone: current_price is the
\* caller's currentPrice raised or lowered by the percentage, in hundredths,
\* percentage_change and direction are the caller's; so an update that finds
\* the quote it is about to store leaves these three fields as they are.
C37_StockUpdateIdempotent ==
    Answered(1, "stock_update", "ok") =>
        LET c == req[1].company
            price == Number(req[1].currentPrice).n
            pct == Number(req[1].percentage).n
            made == [current_price |-> IF req[1].direction = "up"
                                       THEN price * (100 + pct)
                                       ELSE price * (100 - pct),
                     percentage_change |-> pct,
                     direction |-> req[1].direction]
            Fields(q) == [current_price |-> q.current_price,
                          percentage_change |-> q.percentage_change,
                          direction |-> q.direction]
        IN  /\ c \in DOMAIN stocks
            /\ Fields(stocks[c]) = made
            /\ resp[1].newPrice = made.current_price
            /\ \A d \in DOMAIN pre[1].store[5] \ {c} : stocks[d] = pre[1].store[5][d]

\* The same update has been applied a second time: the third request found
\* the quote the second had stored, and stored it again.
C37_Witness ==
    /\ Answered(1, "stock_update", "ok")
    /\ nreq = 3
    /\ req[1].company \in DOMAIN pre[1].store[5]
    /\ pre[1].store[5][req[1].company].current_price
           = stocks[req[1].company].current_price
    /\ pre[1].store[5][req[1].company].direction = req[1].direction
    /\ pre[1].store[5][req[1].company].percentage_change
           = Number(req[1].percentage).n
    /\ Number(req[1].percentage).n > 0
    /\ pre[1].store[5][req[1].company].updated_at = 2

\* --------------------------------------------------------------------- C38
\* C38: every stored StockQuote has current_price >= 0 and a direction of up
\* or down; a stock update with another direction, with currentPrice <= 0 or
\* with percentage < 0 is answered InvalidInput and stores nothing.
C38_StoredPriceNotNegative ==
    /\ \A c \in DOMAIN stocks : /\ stocks[c].current_price >= 0
                                /\ stocks[c].direction \in {"up", "down"}
    /\ (pc[1] = "done" /\ req[1].op = "stock_update"
        /\ \/ req[1].direction \notin {"up", "down"}
           \/ Number(req[1].currentPrice).n <= 0
           \/ Number(req[1].percentage).n < 0) =>
          /\ resp[1].status = "InvalidInput"
          /\ stocks = pre[1].store[5]

\* --------------------------------------------------------------------- C39
\* C39: the relational adapter's doc(id).update applies the whole patch in
\* one statement.  After the call, a field given as an increment marker holds
\* the stored value plus the delta, every other field of the patch holds the
\* given value, and the fields not in the patch and the other rows are as
\* they were; before the statement nothing has changed; an empty patch
\* issues no statement; and an update addressed to a key without row changes
\* nothing and reports no error.
C39_AdapterUpdate ==
    req[1].op = "update" =>
        LET id == req[1].uid
            patch == req[1].patch
            old == pre[1].balances
        IN  /\ DOMAIN patch = {} => pc[1] = "done"
            /\ pc[1] # "done" => balances = old
            /\ pc[1] = "done" =>
                  /\ resp[1].status = "ok"
                  /\ DOMAIN balances = DOMAIN old
                  /\ \A u \in DOMAIN old \ {id} : balances[u] = old[u]
                  /\ id \in DOMAIN old =>
                        \A f \in BalanceColumns :
                            balances[id][f] =
                                IF f \notin DOMAIN patch THEN old[id][f]
                                ELSE IF patch[f].inc THEN old[id][f] + patch[f].v
                                ELSE patch[f].v

\* One update has raised one column by a marker and overwritten the other
\* with a plain value that differs from what was stored.
C39_Witness ==
    /\ Answered(1, "update", "ok")
    /\ req[1].uid \in DOMAIN balances
    /\ DOMAIN req[1].patch = BalanceColumns
    /\ req[1].patch["balance_usd"].inc
    /\ req[1].patch["balance_usd"].v > 0
    /\ ~req[1].patch["wallet_balance_usd"].inc
    /\ balances[req[1].uid].wallet_balance_usd
           # pre[1].balances[req[1].uid].wallet_balance_usd
    /\ balances[req[1].uid].balance_usd
           = pre[1].balances[req[1].uid].balance_usd + req[1].patch["balance_usd"].v
    /\ pre[1].balances[req[1].uid].balance_usd # 0

====
